---- MODULE Spec2Model ----
(***************************************************************************)
(* Tic-Tac-Toe Pro: the socket server's room state machine                 *)
(* (src/lib/socket.ts).  Every async handler is split at its awaits: one   *)
(* action per resumption, the awaited database call taking effect at the   *)
(* moment the handler resumes.  Room objects live in a heap and the        *)
(* handlers in flight hold references to them, as the closures do.         *)
(***************************************************************************)
EXTENDS Integers, Sequences, FiniteSets, Bags, TLC

\* ---------------------------------------------------------------- bounds
Sockets == {"s1", "s2", "s3"}
RoomIds == {"r1"}
\* room objects ever created by createGameRoom
MaxRooms == 2
\* createRoom events in one run of the specifications that play one match
MaxCreates == 1
\* async handlers suspended at an await at the same time
MaxInFlight == 2
\* quantity of each card the store holds for its owner at start
InitQty == 1
\* sockets that leave a room in one run of Spec
MaxLeaves == 1

\* ------------------------------------------------------------- constants
Null == "NULL"            \* JavaScript null
Undefined == "undefined"  \* JavaScript undefined
NoCard == "NONE"          \* makeMove sent without cardType
NoUser == [wins |-> -1, losses |-> -1, draws |-> -1, streak |-> -1]
CardKinds ==
  {"PROTECTION", "GIANT", "DOUBLE_MOVE", "BLOCK", "SWAP_CELL", "TIME_FREEZE",
   "WILDCARD", "SHIELD", "TELEPORT", "MIRROR", "RESET"}
ProtectionStreak == 3
GiantStreak == 5

ErrNotFound == "Room not found"
ErrFull == "Room is full"
ErrNotActive == "Game is not active"
ErrNotYourTurn == "Not your turn"
ErrNoCard == "Card not available"
ErrInvalid == "Invalid move"
NoErr == ""

Symbols == {"X", "O"}
CellValues == {Null, "X", "O"}

\* ------------------------------------------------------- pure functions
\* JSON.stringify / JSON.parse of a board: the text is the list of tokens
JSONstringify(board) ==
  [i \in 1..Cardinality(DOMAIN board) |->
     IF board[i - 1] = Null THEN "null" ELSE board[i - 1]]

JSONparse(text) ==
  [i \in 0..(Len(text) - 1) |-> IF text[i + 1] = "null" THEN Null ELSE text[i + 1]]

\* board[i] of a JavaScript array: undefined outside the array
At(board, i) == IF i \in DOMAIN board THEN board[i] ELSE Undefined

\* Lines without the second diagonal
LinesOneDiagonal(size) ==
  [i \in 1..size |-> [j \in 1..size |-> (i - 1) * size + (j - 1)]]
  \o [i \in 1..size |-> [j \in 1..size |-> (j - 1) * size + (i - 1)]]
  \o << [i \in 1..size |-> (i - 1) * size + (i - 1)] >>

Lines(size) ==
  [i \in 1..size |-> [j \in 1..size |-> (i - 1) * size + (j - 1)]]
  \o [i \in 1..size |-> [j \in 1..size |-> (j - 1) * size + (i - 1)]]
  \o << [i \in 1..size |-> (i - 1) * size + (i - 1)],
        [i \in 1..size |-> (i - 1) * size + (size - 1 - (i - 1))] >>

Every(board, line, val) == \A j \in 1..Len(line) : At(board, line[j]) = val

RECURSIVE firstLine(_, _, _)
firstLine(board, lines, k) ==
  IF k > Len(lines) THEN Null
  ELSE IF Every(board, lines[k], "X") THEN "X"
  ELSE IF Every(board, lines[k], "O") THEN "O"
  ELSE firstLine(board, lines, k + 1)

\* the lines of the 3x3 board, computed once
Lines3 == Lines(3)

checkWinner(board, size) == firstLine(board, IF size = 3 THEN Lines3 ELSE Lines(size), 1)

isBoardFull(board) == \A i \in DOMAIN board : board[i] # Null

createGameRoom(roomId, boardSize) ==
  [roomId |-> roomId,
   boardSize |-> boardSize,
   boardState |-> JSONstringify([i \in 0..(boardSize * boardSize - 1) |-> Null]),
   currentTurn |-> "",
   status |-> "WAITING",
   winner |-> Null,
   players |-> << >>,
   blockedCells |-> << >>,
   moveHistory |-> << >>]

NoRoom == [createGameRoom("", 0) EXCEPT !.status = "FREED"]

\* Array.prototype.find / findIndex / includes / splice
\* the predicates of the program compare one field with a value: x => x.field === val
\* (same = TRUE) or x => x.field !== val (same = FALSE); 0 stands for -1 / undefined
RECURSIVE findIndex(_, _, _, _, _)
findIndex(seq, field, val, same, k) ==
  IF k > Len(seq) THEN 0
  ELSE IF (seq[k][field] = val) = same THEN k
  ELSE findIndex(seq, field, val, same, k + 1)

includes(seq, x) == \E k \in 1..Len(seq) : seq[k] = x

splice(seq, k) == [i \in 1..(Len(seq) - 1) |-> IF i < k THEN seq[i] ELSE seq[i + 1]]

Min(S) == CHOOSE x \in S : \A y \in S : x <= y

\* ---------------------------------------------------------------- state
VARIABLES gameRooms, heap, allocated, open, joined, users, userCards, inflight, emitted,
          sent, lastUpdate, client
\* gameRooms  the Map roomId -> room, as its entries in insertion order
\* heap       room objects by reference
\* allocated  number of room objects created so far
\* open       sockets still connected
\* joined     socket.io room membership: roomId -> sockets
\* users      prisma.user rows by id
\* userCards  prisma.userCard rows: user -> kind -> [quantity, used]
\* inflight   handlers suspended at an await (a bag)
\* emitted    the error the last step sent to its caller, or NoErr
\* sent       the gameStateUpdate, playerJoined and gameOver messages the last
\*            step emitted, in order, each with the sockets it went to
\* lastUpdate roomId -> the last gameStateUpdate broadcast to the room that is
\*            registered under it

\* client     the single-player page (page.tsx): the board the AI is asked to
\*            move on and its answer, or the minimax call being evaluated

vars == <<gameRooms, heap, allocated, open, joined, users, userCards, inflight, emitted,
          sent, lastUpdate, client>>

\* no single-player game is open
NoGame == [boardSize |-> 0]

Refs == 1..MaxRooms

\* gameRooms.get(roomId): the reference, 0 when absent
get(roomId) ==
  LET k == findIndex(gameRooms, "roomId", roomId, TRUE, 1)
  IN IF k = 0 THEN 0 ELSE gameRooms[k].ref

\* gameRooms.set(roomId, ref): an existing key keeps its place
set(roomId, ref) ==
  LET k == findIndex(gameRooms, "roomId", roomId, TRUE, 1)
  IN IF k = 0 THEN Append(gameRooms, [roomId |-> roomId, ref |-> ref])
     ELSE [gameRooms EXCEPT ![k].ref = ref]

\* the closure of a handler: its arguments, its locals and where it is suspended
Handler(op, sock, ref, pc) ==
  [op |-> op, sock |-> sock, ref |-> ref, pc |-> pc, roomId |-> "", size |-> 0,
   position |-> 0, cardType |-> NoCard, board |-> << >>, read |-> NoUser,
   quantity |-> 0, used |-> 0, branch |-> "", idx |-> 0, winnerId |-> "",
   loserId |-> "", targetId |-> "", result |-> "", winner |-> Null, awarded |-> ""]

Suspended == BagToSet(inflight)
Suspend(h) == inflight (+) SetToBag({h})
Replace(h, g) == (inflight (-) SetToBag({h})) (+) SetToBag({g})
Finish(h) == inflight (-) SetToBag({h})
CanSuspend == BagCardinality(inflight) < MaxInFlight

\* a room object no Map entry and no closure refers to is garbage
Live(regs, bag) ==
  {regs[k].ref : k \in 1..Len(regs)} \cup {h.ref : h \in BagToSet(bag)}

Collect(hp, regs, bag) ==
  [r \in Refs |-> IF r \in Live(regs, bag) THEN hp[r] ELSE NoRoom]

\* convertToGameState leaving the move log out of the snapshot
convertToGameStateNoHistory(gameRoom) ==
  [board |-> JSONparse(gameRoom.boardState),
   currentPlayer |-> gameRoom.currentTurn,
   players |-> gameRoom.players,
   status |-> gameRoom.status,
   winner |-> gameRoom.winner,
   boardSize |-> gameRoom.boardSize,
   roomId |-> gameRoom.roomId,
   blockedCells |-> gameRoom.blockedCells,
   moveHistory |-> << >>]

\* ------------------------------------------------------------- messages
\* convertToGameState: what a gameStateUpdate carries
convertToGameState(gameRoom) ==
  [board |-> JSONparse(gameRoom.boardState),
   currentPlayer |-> gameRoom.currentTurn,
   players |-> gameRoom.players,
   status |-> gameRoom.status,
   winner |-> gameRoom.winner,
   boardSize |-> gameRoom.boardSize,
   roomId |-> gameRoom.roomId,
   blockedCells |-> gameRoom.blockedCells,
   moveHistory |-> gameRoom.moveHistory]

\* no gameStateUpdate has been broadcast
NoUpdate == convertToGameState(NoRoom)

\* socket.emit(event, data): a socket that has disconnected receives nothing
toSocket(s, event, data) ==
  [event |-> event, room |-> "", to |-> IF s \in open THEN {s} ELSE {}, data |-> data]

\* io.to(roomId).emit(event, data): members is the socket.io room at that time
toRoom(roomId, members, event, data) ==
  [event |-> event, room |-> roomId, to |-> members, data |-> data]

\* the data of the last gameStateUpdate among msgs[1..k] broadcast to roomId
RECURSIVE lastBroadcast(_, _, _, _)
lastBroadcast(msgs, roomId, k, old) ==
  IF k = 0 THEN old
  ELSE IF msgs[k].event = "gameStateUpdate" /\ msgs[k].room = roomId THEN msgs[k].data
  ELSE lastBroadcast(msgs, roomId, k - 1, old)

\* the step emits msgs
Out(msgs) ==
  /\ sent' = msgs
  /\ lastUpdate' = [r \in RoomIds |-> lastBroadcast(msgs, r, Len(msgs), lastUpdate[r])]

\* the state after setupSocket, the card store holding `seeds`
\* (a set of <<user, kind>> pairs, InitQty cards each)
InitStore(seeds) ==
  /\ gameRooms = << >>
  /\ heap = [r \in Refs |-> NoRoom]
  /\ allocated = 0
  /\ open = Sockets
  /\ joined = [r \in RoomIds |-> {}]
  /\ users = [s \in Sockets |-> NoUser]
  /\ userCards = [s \in Sockets |-> [k \in CardKinds |->
                    [quantity |-> IF <<s, k>> \in seeds THEN InitQty ELSE 0, used |-> 0]]]
  /\ inflight = EmptyBag
  /\ emitted = NoErr
  /\ sent = << >>
  /\ lastUpdate = [r \in RoomIds |-> NoUpdate]
  /\ client = NoGame

\* new users own no card
Init == InitStore({})

\* a store in which s1 owns Block and Double Move cards and s2 a Swap Cell card
Seeds == {<<"s1", "BLOCK">>, <<"s1", "DOUBLE_MOVE">>, <<"s2", "SWAP_CELL">>}
InitCards == InitStore(Seeds)

\* every step ends by publishing the Map, the heap and the suspended handlers
Commit(hp, regs, bag) ==
  /\ gameRooms' = regs
  /\ inflight' = bag
  /\ heap' = Collect(hp, regs, bag)

ZeroStats == [wins |-> 0, losses |-> 0, draws |-> 0, streak |-> 0]
Player(id, symbol) == [id |-> id, symbol |-> symbol]

\* ------------------------------------------------------------ createRoom
\* socket.on('createRoom'): up to the first await (prisma.user.findUnique)
CreateRoom(s, roomId, size) ==
  /\ s \in open
  /\ CanSuspend
  /\ allocated < MaxRooms
  /\ allocated' = allocated + 1
  /\ Commit(heap, gameRooms,
            Suspend([Handler("createRoom", s, allocated + 1, "findUser")
                       EXCEPT !.roomId = roomId, !.size = size]))
  /\ emitted' = NoErr
  /\ Out(<< >>)
  /\ UNCHANGED <<client, open, joined, users, userCards>>

\* ------------------------------------------------------------- joinRoom
JoinRoomCheck(roomId) ==
  IF get(roomId) = 0 THEN ErrNotFound
  ELSE IF Len(heap[get(roomId)].players) >= 2 THEN ErrFull
  ELSE NoErr

\* socket.on('joinRoom'): the lookup and the two checks, up to the first await
JoinRoom(s, roomId) ==
  /\ s \in open
  /\ LET err == JoinRoomCheck(roomId) IN
       /\ emitted' = err
       /\ IF err # NoErr
            THEN UNCHANGED <<gameRooms, heap, inflight>>
            ELSE /\ CanSuspend
                 /\ Commit(heap, gameRooms,
                           Suspend([Handler("joinRoom", s, get(roomId), "findUser")
                                      EXCEPT !.roomId = roomId]))
  /\ Out(<< >>)
  /\ UNCHANGED <<client, allocated, open, joined, users, userCards>>

\* await prisma.user.findUnique({ where: { email } }) in createRoom / joinRoom
FindUser(h) ==
  /\ h.op \in {"createRoom", "joinRoom"}
  /\ h.pc = "findUser"
  /\ Commit(heap, gameRooms, Replace(h, [h EXCEPT !.pc = "upsert", !.read = users[h.sock]]))
  /\ emitted' = NoErr
  /\ Out(<< >>)
  /\ UNCHANGED <<client, allocated, open, joined, users, userCards>>

FailedMsg(h) ==
  IF h.op = "createRoom" THEN "Failed to create room"
  ELSE IF h.op = "joinRoom" THEN "Failed to join room"
  ELSE "Failed to make move"

\* await prisma.user.create / update, then (createRoom) createGameRoom and
\* gameRooms.set, up to await getUserCards
UpsertUser(h) ==
  /\ h.op \in {"createRoom", "joinRoom"}
  /\ h.pc = "upsert"
  /\ IF h.read = NoUser /\ users[h.sock] # NoUser
       THEN \* create hits the unique id: the catch block reports it
            /\ Commit(heap, gameRooms, Finish(h))
            /\ emitted' = FailedMsg(h)
            /\ UNCHANGED users
       ELSE /\ users' = IF h.read = NoUser THEN [users EXCEPT ![h.sock] = ZeroStats]
                        ELSE users
            /\ emitted' = NoErr
            /\ IF h.op = "createRoom"
                 THEN Commit([heap EXCEPT ![h.ref] = createGameRoom(h.roomId, h.size)],
                             set(h.roomId, h.ref),
                             Replace(h, [h EXCEPT !.pc = "getCards"]))
                 ELSE Commit(heap, gameRooms, Replace(h, [h EXCEPT !.pc = "getCards"]))
  /\ Out(<< >>)
  /\ UNCHANGED <<client, allocated, open, joined, userCards>>

\* socket.join(roomId): a socket that has disconnected is in no room
socketJoin(s, roomId) ==
  IF s \in open THEN [joined EXCEPT ![roomId] = @ \cup {s}] ELSE joined

\* the room after createRoom's players.push and currentTurn assignment
createRoomPush(room, s) ==
  [room EXCEPT !.players = Append(@, Player(s, "X")), !.currentTurn = s]

\* the room after joinRoom's players.push and status assignment
joinRoomPush(room, s) ==
  [room EXCEPT !.players = Append(@, Player(s, "O")), !.status = "PLAYING"]

\* what createRoom / joinRoom emit once the player is pushed: the confirmation
\* to the caller, then the broadcasts to the socket.io room
announce(h, room, members) ==
  IF h.op = "createRoom"
    THEN <<toSocket(h.sock, "roomCreated", [roomId |-> h.roomId, playerId |-> h.sock]),
           toRoom(h.roomId, members, "gameStateUpdate", convertToGameState(room))>>
    ELSE <<toSocket(h.sock, "roomJoined", [roomId |-> h.roomId, playerId |-> h.sock]),
           toRoom(h.roomId, members, "playerJoined", [players |-> room.players]),
           toRoom(h.roomId, members, "gameStateUpdate", convertToGameState(room))>>

\* getUserCards resolved, the handler storing its room in the Map again
GetCardsRegisters(h) ==
  /\ h.op \in {"createRoom", "joinRoom"}
  /\ h.pc = "getCards"
  /\ Commit([heap EXCEPT ![h.ref] = IF h.op = "createRoom"
                                      THEN createRoomPush(@, h.sock)
                                      ELSE joinRoomPush(@, h.sock)],
            set(h.roomId, h.ref), Finish(h))
  /\ joined' = socketJoin(h.sock, h.roomId)
  /\ emitted' = NoErr
  /\ Out(announce(h, IF h.op = "createRoom" THEN createRoomPush(heap[h.ref], h.sock)
                                            ELSE joinRoomPush(heap[h.ref], h.sock),
                  socketJoin(h.sock, h.roomId)[h.roomId]))
  /\ UNCHANGED <<client, allocated, open, users, userCards>>

\* await getUserCards resolved: the player is pushed and the room announced
GetCards(h) ==
  /\ h.op \in {"createRoom", "joinRoom"}
  /\ h.pc = "getCards"
  /\ Commit([heap EXCEPT ![h.ref] = IF h.op = "createRoom"
                                      THEN createRoomPush(@, h.sock)
                                      ELSE joinRoomPush(@, h.sock)],
            gameRooms, Finish(h))
  /\ joined' = socketJoin(h.sock, h.roomId)
  /\ emitted' = NoErr
  /\ Out(announce(h, IF h.op = "createRoom" THEN createRoomPush(heap[h.ref], h.sock)
                                            ELSE joinRoomPush(heap[h.ref], h.sock),
                  socketJoin(h.sock, h.roomId)[h.roomId]))
  /\ UNCHANGED <<client, allocated, open, users, userCards>>

\* ----------------------------------------------------------- disconnect
\* the first Map entry whose room holds the socket, 0 when none
RECURSIVE firstRoomOf(_, _)
firstRoomOf(s, k) ==
  IF k > Len(gameRooms) THEN 0
  ELSE IF findIndex(heap[gameRooms[k].ref].players, "id", s, TRUE, 1) # 0 THEN k
  ELSE firstRoomOf(s, k + 1)

disconnectRoom(room, s) ==
  LET left == splice(room.players, findIndex(room.players, "id", s, TRUE, 1))
  IN IF Len(left) = 0 THEN [room EXCEPT !.players = left]
     ELSE [room EXCEPT !.players = left, !.status = "WAITING"]

\* what disconnect broadcasts: nothing when the socket is in no room or when
\* its room is deleted, playerLeft and the snapshot otherwise; the socket has
\* left its socket.io rooms by then
departure(s, k) ==
  IF k = 0 THEN << >>
  ELSE LET roomId == gameRooms[k].roomId
           room == disconnectRoom(heap[gameRooms[k].ref], s)
       IN IF Len(room.players) = 0 THEN << >>
          ELSE <<toRoom(roomId, joined[roomId] \ {s}, "playerLeft", [playerId |-> s]),
                 toRoom(roomId, joined[roomId] \ {s}, "gameStateUpdate",
                        convertToGameState(room))>>

\* socket.on('disconnect')
Disconnect(s) ==
  /\ s \in open
  /\ open' = open \ {s}
  /\ joined' = [r \in RoomIds |-> joined[r] \ {s}]
  /\ LET k == firstRoomOf(s, 1) IN
       IF k = 0 THEN UNCHANGED <<gameRooms, heap, inflight>>
       ELSE LET ref == gameRooms[k].ref
                room == disconnectRoom(heap[ref], s)
            IN Commit([heap EXCEPT ![ref] = room],
                      IF Len(room.players) = 0 THEN splice(gameRooms, k) ELSE gameRooms,
                      inflight)
  /\ emitted' = NoErr
  /\ sent' = departure(s, firstRoomOf(s, 1))
  /\ lastUpdate' = [r \in RoomIds |->
                     IF \A k \in 1..Len(gameRooms') : gameRooms'[k].roomId # r THEN NoUpdate
                     ELSE lastBroadcast(sent', r, Len(sent'), lastUpdate[r])]
  /\ UNCHANGED <<client, allocated, users, userCards>>

\* --------------------------------------------------------- getGameState
\* socket.on('getGameState'): replies with the snapshot, changes nothing
GetGameState(s, roomId) ==
  /\ s \in open
  /\ emitted' = NoErr
  /\ sent' = IF get(roomId) = 0 THEN << >>
             ELSE <<toSocket(s, "gameStateUpdate", convertToGameState(heap[get(roomId)]))>>
  /\ UNCHANGED <<client, gameRooms, heap, allocated, open, joined, users, userCards, inflight,
                  lastUpdate>>

\* ------------------------------------------------------------- makeMove
\* the lookup and the status and turn checks of socket.on('makeMove')
\* makeMoveCheck with the turn looked at before the status
makeMoveCheckTurnFirst(roomId, s) ==
  IF get(roomId) = 0 THEN ErrNotFound
  ELSE IF heap[get(roomId)].currentTurn # s THEN ErrNotYourTurn
  ELSE IF heap[get(roomId)].status # "PLAYING" THEN ErrNotActive
  ELSE NoErr

makeMoveCheck(roomId, s) ==
  IF get(roomId) = 0 THEN ErrNotFound
  ELSE IF heap[get(roomId)].status # "PLAYING" THEN ErrNotActive
  ELSE IF heap[get(roomId)].currentTurn # s THEN ErrNotYourTurn
  ELSE NoErr

symbolOf(room, k) == IF k = 0 THEN Undefined ELSE room.players[k].symbol
idOf(room, k) == IF k = 0 THEN "" ELSE room.players[k].id

\* case 'BLOCK'
blockEffect(room, position) ==
  IF includes(room.blockedCells, position) THEN room
  ELSE [room EXCEPT !.blockedCells = Append(@, position)]

\* gameRoom.players.find(p => p.id === socket.id)?.symbol
symbolFor(room, s) == symbolOf(room, findIndex(room.players, "id", s, TRUE, 1))
\* gameRoom.players.find(p => p.id !== socket.id)?.symbol
opponentSymbolFor(room, s) == symbolOf(room, findIndex(room.players, "id", s, FALSE, 1))
\* board.map(...).filter(i => i !== -1)
playerPositions(board, playerSymbol) == {i \in DOMAIN board : board[i] = playerSymbol}

\* the two assignments of the swap and the write of the board to the room
swapCells(room, b) ==
  [room |-> [room EXCEPT !.boardState = JSONstringify(b)], board |-> b]

\* the swap taking the highest of the player's cells instead of the first
swapEffectHighest(room, board, position, opponentSymbol, playerSymbol) ==
  IF /\ opponentSymbol # Undefined
     /\ At(board, position) = opponentSymbol
     /\ playerSymbol # Undefined
     /\ playerPositions(board, playerSymbol) # {}
    THEN swapCells(room, [[board EXCEPT ![position] = playerSymbol]
                            EXCEPT ![CHOOSE i \in playerPositions(board, playerSymbol) :
                                       \A j \in playerPositions(board, playerSymbol) : j <= i]
                                     = opponentSymbol])
    ELSE [room |-> room, board |-> board]

\* the swap made whatever the target cell holds
swapEffectAnyTarget(room, board, position, opponentSymbol, playerSymbol) ==
  IF /\ opponentSymbol # Undefined
     /\ playerSymbol # Undefined
     /\ playerPositions(board, playerSymbol) # {}
    THEN swapCells(room, [[board EXCEPT ![position] = playerSymbol]
                            EXCEPT ![Min(playerPositions(board, playerSymbol))] = opponentSymbol])
    ELSE [room |-> room, board |-> board]

\* case 'SWAP_CELL': the room and the local board after it
swapEffect(room, board, position, opponentSymbol, playerSymbol) ==
  IF /\ opponentSymbol # Undefined
     /\ At(board, position) = opponentSymbol
     /\ playerSymbol # Undefined
     /\ playerPositions(board, playerSymbol) # {}
    THEN swapCells(room, [[board EXCEPT ![position] = playerSymbol]
                            EXCEPT ![Min(playerPositions(board, playerSymbol))] = opponentSymbol])
    ELSE [room |-> room, board |-> board]

\* the switch on cardType: the room and the local board after the card's effect
cardEffect(room, board, s, position, cardType) ==
  IF cardType = "BLOCK"
    THEN [room |-> blockEffect(room, position), board |-> board]
  ELSE IF cardType = "SWAP_CELL"
    THEN swapEffect(room, board, position, opponentSymbolFor(room, s), symbolFor(room, s))
  ELSE [room |-> room, board |-> board]

\* the validity check without its blocked-cell test
invalidMoveCellOnly(room, board, position) == At(board, position) # Null

\* "Check if move is valid"
invalidMove(room, board, position) ==
  At(board, position) # Null \/ includes(room.blockedCells, position)

\* "Switch turns"
switchTo(room, k) ==
  IF k = 0 THEN room ELSE [room EXCEPT !.currentTurn = room.players[k].id]
switchTurns(room, s) == switchTo(room, findIndex(room.players, "id", s, FALSE, 1))

\* what makeMove has done when it reaches its first await or returns
Outcome(room, err, placed, branch, winnerId, loserId) ==
  [room |-> room, err |-> err, placed |-> placed, branch |-> branch,
   winnerId |-> winnerId, loserId |-> loserId]

\* "Check for winner", "Check for draw", "Switch turns", up to the first await
afterMark(room, s, winner, full) ==
  IF winner # Null
    THEN Outcome([room EXCEPT !.status = "FINISHED", !.winner = winner], NoErr, TRUE, "win",
                 idOf(room, findIndex(room.players, "symbol", winner, TRUE, 1)),
                 idOf(room, findIndex(room.players, "symbol", winner, FALSE, 1)))
  ELSE IF full
    THEN Outcome([room EXCEPT !.status = "FINISHED", !.winner = Null], NoErr, TRUE, "draw", "", "")
  ELSE Outcome(switchTurns(room, s), NoErr, TRUE, "none", "", "")

\* "Make the move", "Add to move history": b is the local board with the mark
recordMark(room, b, s, position, symbol) ==
  afterMark([room EXCEPT !.boardState = JSONstringify(b),
                         !.moveHistory = Append(@, [position |-> position, symbol |-> symbol,
                                                    playerId |-> s])],
            s, checkWinner(b, room.boardSize), isBoardFull(b))

placeMark(room, board, s, position, symbol) ==
  recordMark(room, [board EXCEPT ![position] = symbol], s, position, symbol)

\* makeMove after the card switch: e is the room and the local board it left
afterCard(e, s, position) ==
  IF invalidMove(e.room, e.board, position)
    THEN Outcome(e.room, ErrInvalid, FALSE, "none", "", "")
  ELSE IF findIndex(e.room.players, "id", s, TRUE, 1) = 0
    THEN Outcome(e.room, NoErr, FALSE, "none", "", "")
  ELSE placeMark(e.room, e.board, s, position, symbolFor(e.room, s))

\* makeMove from the card switch on, up to its first await or its return
makeMoveTail(room, board, s, position, cardType) ==
  afterCard(cardEffect(room, board, s, position, cardType), s, position)

\* the user the outcome branch records next, "" when none is left:
\* winner then loser after a win, the players array in order after a draw
target(h, room) ==
  IF h.branch = "win"
    THEN IF h.idx = 0 /\ h.winnerId # "" THEN [id |-> h.winnerId, result |-> "win", idx |-> 0]
         ELSE IF h.idx <= 1 /\ h.loserId # "" THEN [id |-> h.loserId, result |-> "loss", idx |-> 1]
         ELSE [id |-> "", result |-> "", idx |-> 2]
    ELSE IF h.idx < Len(room.players)
           THEN [id |-> room.players[h.idx + 1].id, result |-> "draw", idx |-> h.idx]
           ELSE [id |-> "", result |-> "", idx |-> h.idx]

\* where the handler suspends next in its outcome branch, pc "return" when it
\* returns; t is the user it records next
awaitFor(h, t) ==
  IF t.id # ""
    THEN [h EXCEPT !.pc = "readStats", !.targetId = t.id, !.result = t.result, !.idx = t.idx]
  ELSE IF h.branch = "win" /\ h.winnerId # "" /\ h.pc # "winnerStats" /\ h.pc # "loserStats"
    THEN [h EXCEPT !.pc = "winnerStats"]
  ELSE IF h.branch = "win" /\ h.loserId # "" /\ h.pc # "loserStats"
    THEN [h EXCEPT !.pc = "loserStats"]
  ELSE [h EXCEPT !.pc = "return"]

nextAwait(h, room) == awaitFor(h, target(h, room))

\* io.to(roomId).emit('cardUsed'): BLOCK and DOUBLE_MOVE always announce the
\* card, SWAP_CELL only when it exchanged two cells
cardUsed(h, room) ==
  IF \/ h.cardType \in {"BLOCK", "DOUBLE_MOVE"}
     \/ /\ h.cardType = "SWAP_CELL"
        /\ cardEffect(room, h.board, h.sock, h.position, h.cardType).room # room
    THEN <<toRoom(h.roomId, joined[h.roomId], "cardUsed",
                  [card |-> h.cardType, playerId |-> h.sock])>>
    ELSE << >>

\* the stats gameOver carries: the winner's row as "Get updated stats" read it
statsOf(user) == IF user = NoUser THEN ZeroStats ELSE user

\* io.to(roomId).emit('gameOver') of the branch the handler took, none when the
\* game goes on
gameOver(h) ==
  IF h.branch = "win"
    THEN <<toRoom(h.roomId, joined[h.roomId], "gameOver",
                  [winner |-> h.winner,
                   stats |-> IF h.winnerId # "" THEN statsOf(h.read) ELSE ZeroStats])>>
  ELSE IF h.branch = "draw"
    THEN <<toRoom(h.roomId, joined[h.roomId], "gameOver",
                  [winner |-> Null, stats |-> ZeroStats])>>
  ELSE << >>

\* what makeMove emits from its outcome branch to its end: gameOver when the
\* game ended, then the snapshot of the room as it is by then
finale(h, room) ==
  gameOver(h) \o <<toRoom(h.roomId, joined[h.roomId], "gameStateUpdate",
                          convertToGameState(room))>>

\* the handler runs from the card switch to its next await
RunTail(h, fresh) ==
  \E t \in {makeMoveTail(heap[h.ref], h.board, h.sock, h.position, h.cardType)} :
  \E g \in {nextAwait([h EXCEPT !.branch = t.branch, !.winnerId = t.winnerId,
                                !.loserId = t.loserId, !.idx = 0, !.board = << >>,
                                !.winner = t.room.winner], t.room)} :
  \E rest \in {IF fresh THEN inflight ELSE Finish(h)} :
     /\ emitted' = t.err
     /\ Out(cardUsed(h, heap[h.ref]) \o
            (IF t.placed /\ (t.branch = "none" \/ g.pc = "return")
               THEN finale([g EXCEPT !.branch = t.branch], t.room) ELSE << >>))
     /\ IF t.branch = "none" \/ g.pc = "return"
          THEN Commit([heap EXCEPT ![h.ref] = t.room], gameRooms, rest)
          ELSE /\ BagCardinality(rest) < MaxInFlight
               /\ Commit([heap EXCEPT ![h.ref] = t.room], gameRooms,
                         rest (+) SetToBag({g}))

\* socket.on('makeMove'): from the event to the first await or the return
MakeMove(s, roomId, position, cardType) ==
  /\ s \in open
  /\ LET err == makeMoveCheck(roomId, s)
         h == [Handler("makeMove", s, get(roomId), "useCard") EXCEPT
                 !.roomId = roomId, !.position = position, !.cardType = cardType,
                 !.board = JSONparse(heap[get(roomId)].boardState)]
     IN IF err # NoErr
          THEN /\ emitted' = err
               /\ Out(<< >>)
               /\ UNCHANGED <<gameRooms, heap, inflight>>
        ELSE IF cardType # NoCard
          THEN /\ CanSuspend
               /\ emitted' = NoErr
               /\ Out(<< >>)
               /\ Commit(heap, gameRooms, Suspend(h))
        ELSE RunTail(h, TRUE)
  /\ UNCHANGED <<client, allocated, open, joined, users, userCards>>

\* useUserCard: prisma.card.findUnique and prisma.userCard.findUnique
UseCardRead(h) ==
  /\ h.op = "makeMove"
  /\ h.pc = "useCard"
  /\ IF h.cardType \notin CardKinds \/ userCards[h.sock][h.cardType].quantity <= 0
       THEN /\ emitted' = ErrNoCard
            /\ Commit(heap, gameRooms, Finish(h))
       ELSE /\ emitted' = NoErr
            /\ Commit(heap, gameRooms,
                      Replace(h, [h EXCEPT !.pc = "consume",
                                           !.quantity = userCards[h.sock][h.cardType].quantity,
                                           !.used = userCards[h.sock][h.cardType].used]))
  /\ Out(<< >>)
  /\ UNCHANGED <<client, allocated, open, joined, users, userCards>>

\* useUserCard: prisma.userCard.update, then makeMove goes on with the card
UseCardWrite(h) ==
  /\ h.op = "makeMove"
  /\ h.pc = "consume"
  /\ userCards' = [userCards EXCEPT ![h.sock][h.cardType] =
                     [quantity |-> h.quantity - 1, used |-> h.used + 1]]
  /\ RunTail(h, FALSE)
  /\ UNCHANGED <<client, allocated, open, joined, users>>

\* updateUserStats: prisma.user.findUnique
ReadStats(h) ==
  /\ h.op = "makeMove"
  /\ h.pc = "readStats"
  /\ LET user == users[h.targetId]
         award == h.result = "win" /\ user.streak + 1 \in {ProtectionStreak, GiantStreak}
         g == IF user = NoUser THEN nextAwait([h EXCEPT !.idx = @ + 1], heap[h.ref])
              ELSE [h EXCEPT !.read = user, !.pc = IF award THEN "awardRead" ELSE "writeStats"]
     IN /\ Commit(heap, gameRooms, IF g.pc = "return" THEN Finish(h) ELSE Replace(h, g))
        /\ Out(IF g.pc = "return" THEN finale(g, heap[h.ref]) ELSE << >>)
  /\ emitted' = NoErr
  /\ UNCHANGED <<client, allocated, open, joined, users, userCards>>

\* the card updateUserStats awards for the streak it computed
awardKind(h) == IF h.read.streak + 1 = ProtectionStreak THEN "PROTECTION" ELSE "GIANT"

\* awardCard: prisma.card.findUnique and prisma.userCard.findUnique
AwardRead(h) ==
  /\ h.op = "makeMove"
  /\ h.pc = "awardRead"
  /\ Commit(heap, gameRooms,
            Replace(h, [h EXCEPT !.pc = "awardWrite",
                                 !.quantity = userCards[h.targetId][awardKind(h)].quantity]))
  /\ emitted' = NoErr
  /\ Out(<< >>)
  /\ UNCHANGED <<client, allocated, open, joined, users, userCards>>

\* awardCard: prisma.userCard.update / create
AwardWrite(h) ==
  /\ h.op = "makeMove"
  /\ h.pc = "awardWrite"
  /\ userCards' = [userCards EXCEPT ![h.targetId][awardKind(h)].quantity = h.quantity + 1]
  /\ Commit(heap, gameRooms, Replace(h, [h EXCEPT !.pc = "writeStats",
                                                   !.awarded = awardKind(h)]))
  /\ emitted' = NoErr
  /\ Out(<< >>)
  /\ UNCHANGED <<client, allocated, open, joined, users>>

\* the counters updateUserStats writes, from the row it read
newStats(user, result) ==
  IF result = "win"
    THEN [user EXCEPT !.wins = @ + 1, !.streak = @ + 1]
  ELSE IF result = "loss"
    THEN [user EXCEPT !.losses = @ + 1, !.streak = 0]
  ELSE [user EXCEPT !.draws = @ + 1, !.streak = 0]

\* updateUserStats: prisma.user.update, then makeMove goes on to its next await
WriteStats(h) ==
  /\ h.op = "makeMove"
  /\ h.pc = "writeStats"
  /\ users' = [users EXCEPT ![h.targetId] = newStats(h.read, h.result)]
  /\ LET g == nextAwait([h EXCEPT !.idx = @ + 1, !.read = NoUser, !.quantity = 0,
                                  !.awarded = ""],
                        heap[h.ref])
     IN /\ Commit(heap, gameRooms, IF g.pc = "return" THEN Finish(h) ELSE Replace(h, g))
        /\ Out(IF g.pc = "return" THEN finale(g, heap[h.ref]) ELSE << >>)
  /\ emitted' = NoErr
  /\ UNCHANGED <<client, allocated, open, joined, userCards>>

\* "Get updated stats": the two prisma.user.findUnique, the winner's row kept
\* for gameOver, which is emitted with the snapshot after the last of them
FetchStats(h) ==
  /\ h.op = "makeMove"
  /\ h.pc \in {"winnerStats", "loserStats"}
  /\ LET g == nextAwait([h EXCEPT !.read = IF h.pc = "winnerStats" THEN users[h.winnerId]
                                           ELSE @], heap[h.ref])
     IN /\ Commit(heap, gameRooms, IF g.pc = "return" THEN Finish(h) ELSE Replace(h, g))
        /\ Out(IF g.pc = "return" THEN finale(g, heap[h.ref]) ELSE << >>)
  /\ emitted' = NoErr
  /\ UNCHANGED <<client, allocated, open, joined, users, userCards>>

\* ------------------------------------------- single player (page.tsx)
\* Infinity, the start value of the best score: above every score
Infinity == 1000

\* board.map((cell, index) => cell === null ? index : -1).filter(i => i !== -1)
emptyCells(board) == {i \in DOMAIN board : board[i] = Null}

\* findWinningMove: its for loop from index i on, -1 when no cell wins
RECURSIVE findWinningMoveFrom(_, _, _, _)
findWinningMoveFrom(board, size, player, i) ==
  IF i >= Cardinality(DOMAIN board) THEN -1
  ELSE IF board[i] = Null /\ checkWinner([board EXCEPT ![i] = player], size) = player THEN i
  ELSE findWinningMoveFrom(board, size, player, i + 1)

findWinningMove(board, size, player) == findWinningMoveFrom(board, size, player, 0)

\* minimax and its two for loops from index i on, bestScore being the best so
\* far: Math.max(score, bestScore) for the AI, Math.min for the player
RECURSIVE minimax(_, _, _, _)
RECURSIVE minimaxFrom(_, _, _, _, _, _)
minimaxFrom(board, size, depth, isMaximizing, i, bestScore) ==
  IF i >= Cardinality(DOMAIN board) THEN bestScore
  ELSE IF board[i] # Null
    THEN minimaxFrom(board, size, depth, isMaximizing, i + 1, bestScore)
  ELSE IF isMaximizing
    THEN LET score == minimax([board EXCEPT ![i] = "O"], size, depth + 1, FALSE)
         IN IF score >= bestScore
              THEN minimaxFrom(board, size, depth, isMaximizing, i + 1, score)
            ELSE minimaxFrom(board, size, depth, isMaximizing, i + 1, bestScore)
  ELSE LET score == minimax([board EXCEPT ![i] = "X"], size, depth + 1, TRUE)
       IN IF score <= bestScore
            THEN minimaxFrom(board, size, depth, isMaximizing, i + 1, score)
          ELSE minimaxFrom(board, size, depth, isMaximizing, i + 1, bestScore)

minimax(board, size, depth, isMaximizing) ==
  LET winner == checkWinner(board, size)
  IN IF winner = "O" THEN 10 - depth
     ELSE IF winner = "X" THEN depth - 10
     ELSE IF isBoardFull(board) THEN 0
     ELSE minimaxFrom(board, size, depth, isMaximizing, 0,
                      IF isMaximizing THEN -Infinity ELSE Infinity)

\* getBestMove keeping the last of the best cells (score >= bestScore)
RECURSIVE getBestMoveLast(_, _, _, _, _)
getBestMoveLast(board, size, i, bestScore, bestMove) ==
  IF i >= Cardinality(DOMAIN board) THEN bestMove
  ELSE IF board[i] # Null THEN getBestMoveLast(board, size, i + 1, bestScore, bestMove)
  ELSE IF minimax([board EXCEPT ![i] = "O"], size, 0, FALSE) >= bestScore
    THEN getBestMoveLast(board, size, i + 1,
                         minimax([board EXCEPT ![i] = "O"], size, 0, FALSE), i)
  ELSE getBestMoveLast(board, size, i + 1, bestScore, bestMove)

getBestMoveLastBest(board, size) == getBestMoveLast(board, size, 0, -Infinity, -1)

\* getBestMove without the search: the first empty cell
getBestMoveFirstEmpty(board, size) == Min(emptyCells(board))

\* getBestMove: its for loop from index i on
RECURSIVE getBestMoveFrom(_, _, _, _, _)
getBestMoveFrom(board, size, i, bestScore, bestMove) ==
  IF i >= Cardinality(DOMAIN board) THEN bestMove
  ELSE IF board[i] # Null THEN getBestMoveFrom(board, size, i + 1, bestScore, bestMove)
  ELSE LET score == minimax([board EXCEPT ![i] = "O"], size, 0, FALSE)
       IN IF score > bestScore THEN getBestMoveFrom(board, size, i + 1, score, i)
          ELSE getBestMoveFrom(board, size, i + 1, bestScore, bestMove)

getBestMove(board, size) == getBestMoveFrom(board, size, 0, -Infinity, -1)

\* getAIMove with the block tried before the win
getAIMoveBlockFirst(board, size, difficulty) ==
  IF emptyCells(board) = {} THEN {-1}
  ELSE IF difficulty = "medium" /\ findWinningMove(board, size, "X") # -1
    THEN {findWinningMove(board, size, "X")}
  ELSE IF difficulty = "medium" /\ findWinningMove(board, size, "O") # -1
    THEN {findWinningMove(board, size, "O")}
  ELSE IF difficulty = "hard" THEN {getBestMove(board, size)}
  ELSE emptyCells(board)

\* getAIMove: the cells it can return, Math.random picking any empty cell
getAIMove(board, size, difficulty) ==
  IF emptyCells(board) = {} THEN {-1}
  ELSE IF difficulty = "easy" THEN emptyCells(board)
  ELSE IF difficulty = "medium"
    THEN IF findWinningMove(board, size, "O") # -1 THEN {findWinningMove(board, size, "O")}
         ELSE IF findWinningMove(board, size, "X") # -1
           THEN {findWinningMove(board, size, "X")}
         ELSE emptyCells(board)
  ELSE IF difficulty = "hard" THEN {getBestMove(board, size)}
  ELSE {Min(emptyCells(board))}

\* the setTimeout callback of makeMove. It works on what makeMove captured
\* when it set the timer (newGameState: the game with the player's mark in
\* newBoard and the turn at 'ai'): the AI's answer to newBoard, unless it is
\* -1, is placed as 'O' in a copy of newBoard, and the game state is set to
\* newGameState with that board and the turn at 'player', then to Finished if
\* the board has a winner or is full
AIMove ==
  /\ client.boardSize # 0
  /\ client.timer
  /\ LET g == client.newGameState IN
       \E m \in getAIMove(g.board, g.boardSize, client.difficulty) :
         IF m = -1 THEN client' = [client EXCEPT !.aiMove = m, !.timer = FALSE]
         ELSE \E aiBoard \in {[g.board EXCEPT ![m] = "O"]} :
                \E aiWinner \in {checkWinner(aiBoard, g.boardSize)} :
                  client' = [client EXCEPT
                    !.aiMove = m,
                    !.timer = FALSE,
                    !.board = aiBoard,
                    !.boardSize = g.boardSize,
                    !.roomId = g.roomId,
                    !.currentPlayer = "player",
                    !.status = IF aiWinner # Null \/ isBoardFull(aiBoard)
                                 THEN "FINISHED" ELSE g.status,
                    !.winner = IF aiWinner # Null THEN aiWinner
                               ELSE IF isBoardFull(aiBoard) THEN Null ELSE g.winner]
  /\ UNCHANGED <<gameRooms, heap, allocated, open, joined, users, userCards, inflight,
                  emitted, sent, lastUpdate>>

\* the server is not involved in the single-player page
ServerIdle ==
  UNCHANGED <<gameRooms, heap, allocated, open, joined, users, userCards, inflight,
              emitted, sent, lastUpdate>>

\* one path of the search of getBestMove, a call at a time: the call of
\* minimax on newBoard at the given depth is entered and computes its winner
\* and whether the board is full
enter(newBoard, depth, isMaximizing) ==
  [client EXCEPT !.board = newBoard, !.call = "minimax", !.depth = depth,
                 !.isMaximizing = isMaximizing,
                 !.winner = checkWinner(newBoard, client.boardSize),
                 !.full = isBoardFull(newBoard)]

\* getBestMove tries the empty cell i: minimax(newBoard, size, 0, false)
Try(i) ==
  /\ client.boardSize # 0
  /\ client.call = "getBestMove"
  /\ At(client.board, i) = Null
  /\ client' = enter([client.board EXCEPT ![i] = "O"], 0, FALSE)
  /\ ServerIdle

\* minimax, no winner and the board not full, tries the empty cell i:
\* minimax(newBoard, size, depth + 1, !isMaximizing)
Descend(i) ==
  /\ client.boardSize # 0
  /\ client.call = "minimax"
  /\ client.winner = Null
  /\ ~client.full
  /\ At(client.board, i) = Null
  /\ client' = enter([client.board EXCEPT ![i] = IF client.isMaximizing THEN "O" ELSE "X"],
                     client.depth + 1, ~client.isMaximizing)
  /\ ServerIdle

\* minimax returns the score of a finished game
Return ==
  /\ client.boardSize # 0
  /\ client.call = "minimax"
  /\ client.winner # Null \/ client.full
  /\ client' = [client EXCEPT !.call = "returned",
                              !.score = IF client.winner = "O" THEN 10 - client.depth
                                        ELSE IF client.winner = "X" THEN client.depth - 10
                                        ELSE 0]
  /\ ServerIdle

\* ------------------------------------------------------- the page (client)
\* startSinglePlayerGame: a new game on an empty board of the chosen size
\* under a fresh roomId ('single-' and a uuid, here the number of games
\* started), the player to move. A pending AI timer is left pending
StartSinglePlayerGame ==
  /\ client.boardSize # 0
  /\ client.gameMode = "singleplayer"
  /\ client' = [client EXCEPT
       !.board = [i \in 0..(client.boardSize * client.boardSize - 1) |-> Null],
       !.currentPlayer = "player",
       !.status = "PLAYING",
       !.winner = Null,
       !.roomId = client.started + 1,
       !.started = client.started + 1]
  /\ ServerIdle

\* makeMove of the page, whose socket in multiplayer mode is s1.
\* Multiplayer branch: when it is this socket's turn and
\* the cell is empty, makeMove is emitted with the selected card as cardType
\* and the selection is cleared. Single-player branch: the player's 'X' is
\* placed in a copy of the board and the turn goes to 'ai'; the game is
\* Finished if the new board has a winner or is full, otherwise the AI's
\* timer is set, capturing the new game state, and the selection is cleared
PageMakeMove(position) ==
  /\ client.boardSize # 0
  /\ client.status = "PLAYING"
  /\ client.currentPlayer = IF client.gameMode = "multiplayer" THEN "s1" ELSE "player"
  /\ At(client.board, position) = Null
  /\ IF client.gameMode = "multiplayer"
     THEN client' = [client EXCEPT
            !.lastEmit = [position |-> position, cardType |-> client.selectedCard],
            !.selectedCard = Null,
            !.picked = Null]
     ELSE
     \E newBoard \in {[client.board EXCEPT ![position] = "X"]} :
       \E winner \in {checkWinner(newBoard, client.boardSize)} :
         client' =
           IF winner # Null
             THEN [client EXCEPT !.board = newBoard, !.currentPlayer = "ai",
                                 !.status = "FINISHED", !.winner = winner]
           ELSE IF isBoardFull(newBoard)
             THEN [client EXCEPT !.board = newBoard, !.currentPlayer = "ai",
                                 !.status = "FINISHED", !.winner = Null]
           ELSE [client EXCEPT
                   !.board = newBoard,
                   !.currentPlayer = "ai",
                   !.selectedCard = Null,
                   !.picked = Null,
                   !.timer = TRUE,
                   !.newGameState = [board |-> newBoard, boardSize |-> client.boardSize,
                                     roomId |-> client.roomId, currentPlayer |-> "ai",
                                     status |-> client.status, winner |-> client.winner]]
  /\ ServerIdle

\* socket.on('gameStateUpdate') of the page: the game state becomes the
\* snapshot received
GameStateUpdate(newGameState) ==
  /\ client.boardSize # 0
  /\ client.gameMode = "multiplayer"
  /\ client' = [client EXCEPT
       !.board = newGameState.board,
       !.boardSize = newGameState.boardSize,
       !.roomId = newGameState.roomId,
       !.currentPlayer = newGameState.currentPlayer,
       !.status = newGameState.status,
       !.winner = newGameState.winner]
  /\ ServerIdle

\* handleCardUse: when the game is Playing and it is the user's turn the card
\* is selected and a timer of CardWindow milliseconds is set, whatever timers
\* are pending. (picked and sincePick record the pending selection and the
\* time since it was made.)
CardWindow == 5000
HandleCardUse(cardType) ==
  /\ client.boardSize # 0
  /\ client.status = "PLAYING"
  /\ client.currentPlayer = IF client.gameMode = "multiplayer" THEN "s1" ELSE "player"
  /\ client' = [client EXCEPT !.selectedCard = cardType,
                              !.cardTimers = Append(@, CardWindow),
                              !.picked = cardType,
                              !.sincePick = 0]
  /\ ServerIdle

\* the callback of a timer of handleCardUse that is due: the selection is
\* cleared
ClearCard ==
  /\ client.boardSize # 0
  /\ client.cardTimers # << >>
  /\ Head(client.cardTimers) = 0
  /\ client' = [client EXCEPT !.selectedCard = Null, !.cardTimers = Tail(@)]
  /\ ServerIdle

\* a second passes while timers of handleCardUse are pending and none is due
Tick ==
  /\ client.boardSize # 0
  /\ client.cardTimers # << >>
  /\ Head(client.cardTimers) > 0
  /\ client' = [client EXCEPT
       !.cardTimers = [k \in DOMAIN @ |-> IF @[k] > 1000 THEN @[k] - 1000 ELSE 0],
       !.sincePick = IF @ + 1000 < CardWindow THEN @ + 1000 ELSE CardWindow]
  /\ ServerIdle

\* changeBoardSize: the board becomes an empty board of the new size; the
\* rest of the game state (status, turn, roomId) and a pending timer stay
ChangeBoardSize(size) ==
  /\ client.boardSize # 0
  /\ client' = [client EXCEPT !.boardSize = size,
                              !.board = [i \in 0..(size * size - 1) |-> Null]]
  /\ ServerIdle

LobbyStep(h) ==
  \/ FindUser(h)
  \/ UpsertUser(h)
  \/ GetCards(h)

CardStep(h) ==
  \/ UseCardRead(h)
  \/ UseCardWrite(h)

StatsStep(h) ==
  \/ ReadStats(h)
  \/ WriteStats(h)
  \/ FetchStats(h)

AwardStep(h) ==
  \/ AwardRead(h)
  \/ AwardWrite(h)

\* no handler is suspended: the clients send one event at a time
Idle == inflight = EmptyBag

\* ------------------------------------------------------- specifications
\* what the clients send with a move: cells of the 3x3 board and one index
\* outside it
Positions == {0, 1, 2, 4, 8, 9}
CardPositions == {0, 4, 9}
CardPlayers == {"s1", "s2"}
CardInputs == {NoCard, "BLOCK", "DOUBLE_MOVE", "SWAP_CELL", "BOGUS"}
RaceInputs == {NoCard, "DOUBLE_MOVE"}

\* Spec: plain play, one event at a time; s1 creates the room, any socket
\* joins, asks for the state and moves, and MaxLeaves participants leave
Next ==
  \/ Idle /\ allocated < MaxCreates /\ \E r \in RoomIds : CreateRoom("s1", r, 3)
  \/ Idle /\ \E s \in Sockets, r \in RoomIds : JoinRoom(s, r)
  \/ Idle /\ \E s \in Sockets :
       Disconnect(s) /\ firstRoomOf(s, 1) # 0 /\ Cardinality(Sockets \ open) < MaxLeaves
  \/ Idle /\ \E s \in Sockets, r \in RoomIds : GetGameState(s, r)
  \/ Idle /\ \E s \in Sockets, r \in RoomIds, p \in Positions : MakeMove(s, r, p, NoCard)
  \/ \E h \in Suspended : LobbyStep(h)
  \/ \E h \in Suspended : StatsStep(h)

Spec == Init /\ [][Next]_vars

\* SpecLobby: rooms are created, joined and left by handlers that overlap
NextLobby ==
  \/ allocated < MaxCreates /\ \E s \in Sockets, r \in RoomIds : CreateRoom(s, r, 3)
  \/ \E s \in Sockets, r \in RoomIds : JoinRoom(s, r)
  \/ \E s \in Sockets : Disconnect(s)
  \/ \E s \in Sockets, r \in RoomIds : GetGameState(s, r)
  \/ \E h \in Suspended : LobbyStep(h)

SpecLobby == Init /\ [][NextLobby]_vars

\* SpecCards: s1 and s2 play with cards, one event at a time, on cells that
\* hold no full line
NextCards ==
  \/ Idle /\ allocated < MaxCreates /\ \E r \in RoomIds : CreateRoom("s1", r, 3)
  \/ Idle /\ \E r \in RoomIds : JoinRoom("s2", r)
  \/ Idle /\ \E s \in CardPlayers, r \in RoomIds, p \in CardPositions, c \in CardInputs :
       MakeMove(s, r, p, c)
  \/ \E h \in Suspended : LobbyStep(h)
  \/ \E h \in Suspended : CardStep(h)

SpecCards == InitCards /\ [][NextCards]_vars

\* SpecRace: the moves of s1 and s2 overlap at their awaits
NextRace ==
  \/ Idle /\ allocated < MaxCreates /\ \E r \in RoomIds : CreateRoom("s1", r, 3)
  \/ Idle /\ \E r \in RoomIds : JoinRoom("s2", r)
  \/ \E s \in {"s1", "s2"}, r \in RoomIds, p \in CardPositions, c \in RaceInputs :
       MakeMove(s, r, p, c)
  \/ \E h \in Suspended : LobbyStep(h)
  \/ \E h \in Suspended : CardStep(h)

SpecRace == InitCards /\ [][NextRace]_vars

\* SpecEndgame: s1 and s2 play the opening 0 1 2 4 3 5, which leaves the cells
\* 6, 7 and 8 and no line, then any move; from then on either may leave while
\* a handler is suspended
Opening == <<0, 1, 2, 4, 3, 5>>
Cells == {0, 1, 2, 3, 4, 5, 6, 7, 8}
moves(roomId) == IF get(roomId) = 0 THEN 0 ELSE Len(heap[get(roomId)].moveHistory)
NextEndgame ==
  \/ Idle /\ allocated < MaxCreates /\ \E r \in RoomIds : CreateRoom("s1", r, 3)
  \/ Idle /\ \E r \in RoomIds : JoinRoom("s2", r)
  \/ Idle /\ \E s \in {"s1", "s2"}, r \in RoomIds, p \in Cells :
       /\ moves(r) < Len(Opening) => p = Opening[moves(r) + 1]
       /\ MakeMove(s, r, p, NoCard)
  \/ \E s \in {"s1", "s2"}, r \in RoomIds : moves(r) >= Len(Opening) /\ Disconnect(s)
  \/ \E h \in Suspended : LobbyStep(h)
  \/ \E h \in Suspended : StatsStep(h)

SpecEndgame == Init /\ [][NextEndgame]_vars

\* SpecStreak: returning users whose stored streak is anything up to
\* MaxStreak, holding the cards that streak earned them, play the match of
\* SpecEndgame to a win or a draw and the outcome is recorded with its card
\* awards; right after the opening s1 may also move to StreakCell with a
\* Double Move card, and the moves made during its await overlap it
MaxStreak == 4
StreakCell == 6
earned(s, k, streak) ==
  IF k = "PROTECTION" /\ streak >= ProtectionStreak THEN 1
  ELSE IF k = "GIANT" /\ streak >= GiantStreak THEN 1
  ELSE IF k = "DOUBLE_MOVE" /\ s = "s1" THEN InitQty
  ELSE 0
InitStreak ==
  /\ gameRooms = << >>
  /\ heap = [r \in Refs |-> NoRoom]
  /\ allocated = 0
  /\ open = Sockets
  /\ joined = [r \in RoomIds |-> {}]
  /\ \E a \in 0..MaxStreak, b \in 0..MaxStreak :
       /\ users = [s \in Sockets |-> IF s \in {"s1", "s2"}
                     THEN [wins |-> IF s = "s1" THEN a ELSE b, losses |-> 0, draws |-> 0,
                           streak |-> IF s = "s1" THEN a ELSE b]
                     ELSE NoUser]
       /\ userCards = [s \in Sockets |-> [k \in CardKinds |->
                         [quantity |-> earned(s, k, IF s = "s1" THEN a
                                                    ELSE IF s = "s2" THEN b ELSE 0),
                          used |-> 0]]]
  /\ inflight = EmptyBag
  /\ emitted = NoErr
  /\ sent = << >>
  /\ lastUpdate = [r \in RoomIds |-> NoUpdate]
  /\ client = NoGame

NextStreak ==
  \/ Idle /\ allocated < MaxCreates /\ \E r \in RoomIds : CreateRoom("s1", r, 3)
  \/ Idle /\ \E r \in RoomIds : JoinRoom("s2", r)
  \/ \E s \in {"s1", "s2"}, r \in RoomIds, p \in Cells :
       /\ IF moves(r) < Len(Opening) THEN Idle /\ p = Opening[moves(r) + 1]
          ELSE \A h \in Suspended : h.pc = "useCard"
       /\ MakeMove(s, r, p, NoCard)
  \/ Idle /\ \E r \in RoomIds :
       /\ moves(r) = Len(Opening)
       /\ MakeMove("s1", r, StreakCell, "DOUBLE_MOVE")
  \/ \E h \in Suspended : LobbyStep(h)
  \/ \E h \in Suspended : CardStep(h)
  \/ \E h \in Suspended : StatsStep(h)
  \/ \E h \in Suspended : AwardStep(h)

SpecStreak == InitStreak /\ [][NextStreak]_vars

\* SpecEval: the outcome section of makeMove applied to boards of every size
EvalSizes == {3, 4, 5}
\* N cells at a constant index step: the rows, columns and diagonals and the
\* runs that wrap around an edge of the board
Runs(N) ==
  {L \in {{start + k * step : k \in 0..(N - 1)} :
            start \in 0..(N * N - 1), step \in {1, N - 1, N, N + 1}} :
     L \subseteq 0..(N * N - 1)}
\* every 3x3 board; for the larger sizes a run of one symbol on a uniform
\* background, with one cell overwritten
EvalBoards(N) ==
  IF N = 3 THEN [0..8 -> CellValues]
  ELSE {[i \in 0..(N * N - 1) |-> IF i = hole THEN v ELSE IF i \in L THEN sym ELSE bg] :
          L \in Runs(N), sym \in Symbols, bg \in CellValues,
          hole \in 0..(N * N - 1), v \in CellValues}

InitEval ==
  /\ \E N \in EvalSizes : \E b \in EvalBoards(N) :
       heap = [r \in Refs |->
                 IF r # 1 THEN NoRoom
                 ELSE [createGameRoom("r1", N) EXCEPT
                         !.players = <<Player("s1", "X"), Player("s2", "O")>>,
                         !.currentTurn = "s1", !.status = "PLAYING",
                         !.boardState = JSONstringify(b)]]
  /\ gameRooms = <<[roomId |-> "r1", ref |-> 1]>>
  /\ allocated = 1
  /\ open = Sockets
  /\ joined = [r \in RoomIds |-> {"s1", "s2"}]
  /\ users = [s \in Sockets |-> IF s = "s3" THEN NoUser ELSE ZeroStats]
  /\ userCards = [s \in Sockets |-> [k \in CardKinds |-> [quantity |-> 0, used |-> 0]]]
  /\ inflight = EmptyBag
  /\ emitted = NoErr
  /\ sent = << >>
  /\ lastUpdate = [r \in RoomIds |-> NoUpdate]
  /\ client = NoGame

\* "Check for winner", "Check for draw", "Switch turns" on the board of the room
Evaluate(ref) ==
  /\ heap[ref].status = "PLAYING"
  /\ heap[ref].currentTurn = "s1"
  /\ heap' = [heap EXCEPT ![ref] =
                afterMark(heap[ref], "s1",
                          checkWinner(JSONparse(heap[ref].boardState), heap[ref].boardSize),
                          isBoardFull(JSONparse(heap[ref].boardState))).room]
  /\ UNCHANGED <<client, gameRooms, allocated, open, joined, users, userCards, inflight, emitted,
                  sent, lastUpdate>>

NextEval == \E ref \in Refs : Evaluate(ref)

SpecEval == InitEval /\ [][NextEval]_vars

\* SpecSwap: s1 and s2 play, one event at a time, on six cells of the 3x3
\* board; s2 holds a Swap Cell card and s1 a Block card. A move without a card
\* goes to the lowest of these cells that takes a mark, a Swap Cell move to any
\* of them, a Block move to cell 7: a participant comes to hold two marks while
\* the match goes on, and after X0 O1 X2 O4 X5 a mark of s2 in cell 7 completes
\* the line 1 4 7
SwapPositions == {0, 1, 2, 4, 5, 7}
SwapInputs == ({"SWAP_CELL"} \X SwapPositions) \cup {<<"BLOCK", 7>>}
playable(roomId) ==
  IF get(roomId) = 0 THEN SwapPositions
  ELSE {p \in SwapPositions :
          ~invalidMove(heap[get(roomId)], JSONparse(heap[get(roomId)].boardState), p)}
NextSwap ==
  \/ Idle /\ allocated < MaxCreates /\ \E r \in RoomIds : CreateRoom("s1", r, 3)
  \/ Idle /\ \E r \in RoomIds : JoinRoom("s2", r)
  \/ Idle /\ \E s \in CardPlayers, r \in RoomIds, p \in SwapPositions :
       /\ p \in playable(r)
       /\ \A q \in playable(r) : p <= q
       /\ MakeMove(s, r, p, NoCard)
  \/ Idle /\ \E s \in CardPlayers, r \in RoomIds, m \in SwapInputs :
       MakeMove(s, r, m[2], m[1])
  \/ \E h \in Suspended : LobbyStep(h)
  \/ \E h \in Suspended : CardStep(h)
  \/ \E h \in Suspended : StatsStep(h)

SpecSwap == InitCards /\ [][NextSwap]_vars

\* SpecCreate: s1 and s2 create rooms under the same roomId with any of the
\* sizes the client may send, join, ask for the state and mark cell 0, one
\* event at a time
CreateSizes == {2, 3, 4}
NextCreate ==
  \/ Idle /\ \E s \in {"s1", "s2"}, r \in RoomIds, N \in CreateSizes : CreateRoom(s, r, N)
  \/ Idle /\ \E s \in Sockets, r \in RoomIds : JoinRoom(s, r)
  \/ Idle /\ \E s \in Sockets, r \in RoomIds : GetGameState(s, r)
  \/ Idle /\ \E s \in Sockets, r \in RoomIds : MakeMove(s, r, 0, NoCard)
  \/ \E h \in Suspended : LobbyStep(h)

SpecCreate == Init /\ [][NextCreate]_vars

\* SpecDestroy: s1 and s3 create the room, s2 joins it, s1 moves with a card;
\* the joins and the disconnects of s1 and s2 overlap the suspended handlers
\* (s3 disconnects between handlers), so that the room is deleted while
\* handlers that hold it are suspended, and a room may be created again under
\* the roomId of a deleted one
DestroyPositions == {0}
DestroyInputs == {"BLOCK", "DOUBLE_MOVE"}
NextDestroy ==
  \/ Idle /\ \E s \in {"s1", "s3"}, r \in RoomIds : CreateRoom(s, r, 3)
  \/ \E r \in RoomIds : JoinRoom("s2", r)
  \/ \E s \in {"s1", "s2"} : Disconnect(s)
  \/ Idle /\ Disconnect("s3")
  \/ Idle /\ \E r \in RoomIds, p \in DestroyPositions, c \in DestroyInputs :
       MakeMove("s1", r, p, c)
  \/ \E h \in Suspended : LobbyStep(h)
  \/ \E h \in Suspended : CardStep(h)

SpecDestroy == InitCards /\ [][NextDestroy]_vars

\* SpecAI: getAIMove applied to the boards the page can ask it about: the
\* player ('X') has just moved, no line is complete and a cell is empty. Every
\* such 3x3 board; on the larger boards every such filling of the first
\* eight cells, the other cells holding the marks of Filled. The hard AI is
\* asked only when at most MaxEmpty cells are empty
MaxEmpty == 4
AISizes == {3, 4, 5}
Difficulties == {"easy", "medium", "hard"}
Filled(N) ==
  IF N = 4 THEN <<"X", "O", "O", "X",
                  "X", "O", "X", "O">>
  ELSE IF N = 5 THEN <<               "X", "X",
                       "X", "O", "O", "X", "O",
                       "X", "O", "X", "O", "X",
                       "X", "O", "O", "X", "O">>
  ELSE << >>
count(board, sym) == Cardinality({i \in DOMAIN board : board[i] = sym})
AIBoards(N) ==
  {b \in {[i \in 0..(N * N - 1) |-> IF i < N * N - Len(Filled(N)) THEN top[i]
                                    ELSE Filled(N)[i - (N * N - Len(Filled(N))) + 1]] :
            top \in [0..(N * N - Len(Filled(N)) - 1) -> CellValues]} :
     /\ count(b, "X") = count(b, "O") + 1
     /\ checkWinner(b, N) = Null
     /\ ~isBoardFull(b)}

InitAI ==
  /\ gameRooms = << >>
  /\ heap = [r \in Refs |-> NoRoom]
  /\ allocated = 0
  /\ open = Sockets
  /\ joined = [r \in RoomIds |-> {}]
  /\ users = [s \in Sockets |-> NoUser]
  /\ userCards = [s \in Sockets |-> [k \in CardKinds |-> [quantity |-> 0, used |-> 0]]]
  /\ inflight = EmptyBag
  /\ emitted = NoErr
  /\ sent = << >>
  /\ lastUpdate = [r \in RoomIds |-> NoUpdate]
  /\ \E N \in AISizes : \E b \in AIBoards(N) : \E d \in Difficulties :
       /\ d = "hard" => Cardinality(emptyCells(b)) <= MaxEmpty
       /\ client = [board |-> b, boardSize |-> N, roomId |-> 1, currentPlayer |-> "ai",
                    status |-> "PLAYING", winner |-> Null, difficulty |-> d,
                    timer |-> TRUE, aiMove |-> -1,
                    newGameState |-> [board |-> b, boardSize |-> N, roomId |-> 1,
                                      currentPlayer |-> "ai", status |-> "PLAYING",
                                      winner |-> Null]]

SpecAI == InitAI /\ [][AIMove]_vars

\* SpecSearch: the search of the hard AI followed along every path, from the
\* 3x3 boards after the player's first move and from one 4x4 and one 5x5
\* position of a game in progress, the AI to move
SearchRoot(N) ==
  IF N = 4 THEN <<"X", Null, Null, "O",
                  Null, Null, "X", Null,
                  Null, "X", Null, Null,
                  "O", Null, Null, Null>>
  ELSE <<"X", "O", Null, Null, "X",
         "O", Null, "X", Null, Null,
         Null, "X", "O", Null, "O",
         "X", Null, "O", "O", Null,
         Null, "O", "X", "X", "X">>
SearchRoots(N) ==
  IF N = 3 THEN {[i \in 0..8 |-> IF i = first THEN "X" ELSE Null] : first \in 0..8}
  ELSE {[i \in 0..(N * N - 1) |-> SearchRoot(N)[i + 1]]}

InitSearch ==
  /\ gameRooms = << >>
  /\ heap = [r \in Refs |-> NoRoom]
  /\ allocated = 0
  /\ open = Sockets
  /\ joined = [r \in RoomIds |-> {}]
  /\ users = [s \in Sockets |-> NoUser]
  /\ userCards = [s \in Sockets |-> [k \in CardKinds |-> [quantity |-> 0, used |-> 0]]]
  /\ inflight = EmptyBag
  /\ emitted = NoErr
  /\ sent = << >>
  /\ lastUpdate = [r \in RoomIds |-> NoUpdate]
  /\ \E N \in AISizes : \E b \in SearchRoots(N) :
       client = [board |-> b, boardSize |-> N, call |-> "getBestMove", depth |-> 0,
                 isMaximizing |-> FALSE, winner |-> Null, full |-> FALSE, score |-> 0]

NextSearch ==
  \/ \E i \in 0..(client.boardSize * client.boardSize - 1) : Try(i)
  \/ \E i \in 0..(client.boardSize * client.boardSize - 1) : Descend(i)
  \/ Return

SpecSearch == InitSearch /\ [][NextSearch]_vars

\* the page as it is loaded, switched to the given mode, with the given AI
\* difficulty selected: a 3x3 board, no game yet
InitPage(gameMode, difficulty) ==
  /\ gameRooms = << >>
  /\ heap = [r \in Refs |-> NoRoom]
  /\ allocated = 0
  /\ open = Sockets
  /\ joined = [r \in RoomIds |-> {}]
  /\ users = [s \in Sockets |-> NoUser]
  /\ userCards = [s \in Sockets |-> [k \in CardKinds |-> [quantity |-> 0, used |-> 0]]]
  /\ inflight = EmptyBag
  /\ emitted = NoErr
  /\ sent = << >>
  /\ lastUpdate = [r \in RoomIds |-> NoUpdate]
  /\ client = [gameMode |-> gameMode,
               board |-> [i \in 0..8 |-> Null], boardSize |-> 3, roomId |-> 0,
               currentPlayer |-> "", status |-> "WAITING", winner |-> Null,
               difficulty |-> difficulty, timer |-> FALSE, aiMove |-> -1,
               newGameState |-> NoGame, started |-> 0,
               selectedCard |-> Null, cardTimers |-> << >>,
               picked |-> Null, sincePick |-> 0,
               lastEmit |-> [position |-> -1, cardType |-> Null]]

\* SpecGame: one single-player game on the 3x3 board against the hard AI: the
\* player starts the game and marks any empty cell, the AI answers
NextGame ==
  \/ client.started = 0 /\ StartSinglePlayerGame
  \/ \E position \in 0..8 : PageMakeMove(position)
  \/ AIMove

SpecGame == InitPage("singleplayer", "hard") /\ [][NextGame]_vars

\* SpecRestart: single-player games against the easy AI on the 3x3 and 4x4
\* boards; the player marks cell 0 or cell 4 when no timer is pending, and
\* starts a new game (MaxGames of them) or selects the other board size at
\* any moment, also while the AI's timer is pending
MaxGames == 2
NextRestart ==
  \/ client.started < MaxGames /\ StartSinglePlayerGame
  \/ \E size \in {3, 4} : size # client.boardSize /\ ChangeBoardSize(size)
  \/ ~client.timer /\ \E position \in {0, 4} : PageMakeMove(position)
  \/ AIMove

SpecRestart == InitPage("singleplayer", "easy") /\ [][NextRestart]_vars

\* SpecSelect: the page in multiplayer mode. The server's snapshots put the
\* room in play with the turn at this socket or at the opponent; the user
\* selects a card (at most MaxTimers timers pending), marks cell 0 or 4, and
\* time passes
MaxTimers == 2
NextSelect ==
  \/ \E turn \in {"s1", "s2"} :
       /\ turn # client.currentPlayer
       /\ GameStateUpdate([board |-> [i \in 0..8 |-> Null], boardSize |-> 3,
                           roomId |-> "r1", currentPlayer |-> turn,
                           status |-> "PLAYING", winner |-> Null])
  \/ \E cardType \in {"BLOCK", "DOUBLE_MOVE"} :
       Len(client.cardTimers) < MaxTimers /\ HandleCardUse(cardType)
  \/ ClearCard
  \/ Tick
  \/ \E position \in {0, 4} : PageMakeMove(position)

SpecSelect == InitPage("multiplayer", "medium") /\ [][NextSelect]_vars

\* ------------------------------------------------------------ properties
Registered == {gameRooms[k].ref : k \in 1..Len(gameRooms)}
boardOf(room) == JSONparse(room.boardState)
LastMove(room) == room.moveHistory[Len(room.moveHistory)]
\* the step keeps the room object, and places a mark in it
SameRoom(ref) == heap[ref].status # "FREED" /\ heap'[ref].status # "FREED"
PlacedIn(ref) ==
  SameRoom(ref) /\ Len(heap'[ref].moveHistory) = Len(heap[ref].moveHistory) + 1
\* what a match is made of
RoomView(room) ==
  <<room.boardState, room.blockedCells, room.moveHistory, room.currentTurn,
    room.status, room.winner>>
\* the rows, columns and two main diagonals of an N x N board, by coordinates
GeomLines(N) ==
  {{r * N + c : c \in 0..(N - 1)} : r \in 0..(N - 1)}
    \cup {{r * N + c : r \in 0..(N - 1)} : c \in 0..(N - 1)}
    \cup {{i * N + i : i \in 0..(N - 1)}, {i * N + (N - 1 - i) : i \in 0..(N - 1)}}
Complete(board, N, sym) == \E L \in GeomLines(N) : \A i \in L : board[i] = sym
AnyComplete(board, N) == \E sym \in Symbols : Complete(board, N, sym)
Full(board) == \A i \in DOMAIN board : board[i] \in Symbols

\* C1: overlapping makeMove handlers on one room are linearized; in particular
\* a mark written to the board by one action is never erased by another
C1_MarksNeverErased ==
  [][\A ref \in Refs : SameRoom(ref) =>
       \A i \in DOMAIN boardOf(heap[ref]) :
          boardOf(heap[ref])[i] # Null
            => At(boardOf(heap'[ref]), i) = boardOf(heap[ref])[i]]_vars

\* C2: a room whose status is Playing has exactly 2 participants and no winner
C2_PlayingRoom ==
  \A ref \in Registered :
     heap[ref].status = "PLAYING"
       => Len(heap[ref].players) = 2 /\ heap[ref].winner = Null

\* C3: a room never has more than 2 participants
C3_AtMostTwo == \A ref \in Registered : Len(heap[ref].players) <= 2

\* C4: after a placement that leaves the match Playing, made without a card,
\* currentTurn is the id of a participant of the room and is not the mover
C4_TurnAlternates ==
  [][\A ref \in Refs :
       (PlacedIn(ref) /\ heap'[ref].status = "PLAYING") =>
          /\ heap'[ref].currentTurn # LastMove(heap'[ref]).playerId
          /\ \E k \in 1..Len(heap'[ref].players) :
               heap'[ref].players[k].id = heap'[ref].currentTurn]_vars

\* the card named by a suspended makeMove is held by its caller
Held(h) == h.cardType \in CardKinds /\ userCards[h.sock][h.cardType].quantity > 0

\* C5: makeMove reports the first precondition violated, in the order status,
\* turn, card held, and - on the room the card effect left - cell empty and not
\* blocked; a card is consumed only by a call that passed the status and turn
\* checks
C5_CheckOrder ==
  [][/\ \A s \in CardPlayers, r \in RoomIds, p \in CardPositions, c \in CardInputs :
          \/ IF get(r) = 0 THEN emitted' = ErrNotFound /\ inflight' = inflight
             ELSE IF heap[get(r)].status # "PLAYING"
               THEN emitted' = ErrNotActive /\ inflight' = inflight
             ELSE IF heap[get(r)].currentTurn # s
               THEN emitted' = ErrNotYourTurn /\ inflight' = inflight
             ELSE IF c # NoCard THEN emitted' = NoErr /\ inflight' # inflight
             ELSE emitted' = ErrInvalid
                    <=> \/ At(boardOf(heap[get(r)]), p) # Null
                        \/ includes(heap[get(r)].blockedCells, p)
          \/ ~MakeMove(s, r, p, c)
     /\ \A h \in Suspended :
          \/ /\ emitted' = ErrNoCard <=> ~Held(h)
             /\ emitted' = ErrNoCard => h \notin BagToSet(inflight')
          \/ ~UseCardRead(h)
     /\ \A h \in Suspended :
          \/ IF PlacedIn(h.ref)
               THEN /\ emitted' = NoErr
                    /\ At(boardOf(heap[h.ref]), h.position) = Null
                    /\ ~includes(heap'[h.ref].blockedCells, h.position)
               ELSE /\ emitted' = ErrInvalid
                    /\ \/ At(boardOf(heap'[h.ref]), h.position) # Null
                       \/ includes(heap'[h.ref].blockedCells, h.position)
          \/ ~UseCardWrite(h)
     /\ userCards' # userCards =>
          \E h \in Suspended :
             /\ h.op = "makeMove"
             /\ heap[h.ref].status = "PLAYING"
             /\ heap[h.ref].currentTurn = h.sock
             /\ Held(h)]_vars

\* a Block card was consumed and the move then failed as invalid
C5_Witness ==
  /\ emitted = ErrInvalid
  /\ userCards["s1"]["BLOCK"].used = 1
  /\ userCards["s1"]["BLOCK"].quantity = InitQty - 1

\* C6: a makeMove that fails a precondition leaves the board, the blocked
\* cells, the move log, the turn, the status and the winner as they were
C6_FailureLeavesRoom ==
  [][emitted' \in {ErrNotActive, ErrNotYourTurn, ErrNoCard, ErrInvalid} =>
       \A ref \in Refs : RoomView(heap'[ref]) = RoomView(heap[ref])]_vars

\* C7: every successful consumption lowers the available count of the card by
\* exactly 1 and raises its used count by exactly 1, also when consumptions
\* overlap; the count is never negative and a consumption at count 0 fails
C7_CardEconomy ==
  [][/\ \A h \in Suspended :
          UseCardWrite(h) =>
            /\ userCards'[h.sock][h.cardType].quantity
                 = userCards[h.sock][h.cardType].quantity - 1
            /\ userCards'[h.sock][h.cardType].used
                 = userCards[h.sock][h.cardType].used + 1
     /\ \A h \in Suspended :
          (UseCardRead(h) /\ ~Held(h)) => emitted' = ErrNoCard /\ userCards' = userCards
     /\ \A s \in Sockets, k \in CardKinds : userCards'[s][k].quantity >= 0]_vars

\* C8: a placement that leaves a complete line finishes the match with the
\* symbol of that line as winner; the participant holding that symbol is
\* recorded with a Win and the other participant with a Loss
C8_WinRecorded ==
  [][/\ \A ref \in Refs :
          (PlacedIn(ref) /\ AnyComplete(boardOf(heap'[ref]), heap'[ref].boardSize)) =>
            /\ heap'[ref].status = "FINISHED"
            /\ heap'[ref].winner \in Symbols
            /\ Complete(boardOf(heap'[ref]), heap'[ref].boardSize, heap'[ref].winner)
            /\ \E h \in BagToSet(inflight') :
                 /\ h.op = "makeMove" /\ h.ref = ref /\ h.branch = "win"
                 /\ \E k, j \in 1..Len(heap'[ref].players) :
                      /\ k # j
                      /\ heap'[ref].players[k].symbol = heap'[ref].winner
                      /\ heap'[ref].players[k].id = h.winnerId
                      /\ heap'[ref].players[j].id = h.loserId
     /\ \A h \in Suspended :
          WriteStats(h) =>
            /\ h.result = "win" => users'[h.targetId].wins = users[h.targetId].wins + 1
            /\ h.result = "loss" => users'[h.targetId].losses = users[h.targetId].losses + 1
            /\ h.branch = "win" =>
                 h.targetId = (IF h.result = "win" THEN h.winnerId ELSE h.loserId)]_vars

\* C9: a placement ends the match as a Draw exactly when it leaves no empty
\* cell and no complete line, a full board with a line is a Win, and once the
\* handlers are done a Draw is recorded for both participants
C9_Draw ==
  /\ [][\A ref \in Refs :
          PlacedIn(ref) =>
            /\ (heap'[ref].status = "FINISHED" /\ heap'[ref].winner = Null)
                 <=> /\ Full(boardOf(heap'[ref]))
                     /\ ~AnyComplete(boardOf(heap'[ref]), heap'[ref].boardSize)
            /\ (Full(boardOf(heap'[ref]))
                  /\ AnyComplete(boardOf(heap'[ref]), heap'[ref].boardSize))
                 => heap'[ref].status = "FINISHED" /\ heap'[ref].winner \in Symbols]_vars
  /\ [](\A ref \in Registered :
          (/\ Idle
           /\ Full(boardOf(heap[ref]))
           /\ ~AnyComplete(boardOf(heap[ref]), heap[ref].boardSize)) =>
             \A k \in 1..Len(heap[ref].players) : users[heap[ref].players[k].id].draws >= 1)

\* the outcome section has run on the board of the room
Evaluated(room) == room.status = "FINISHED" \/ room.currentTurn = "s2"

\* C10: on every board of size 3, 4 or 5 checkWinner returns a symbol exactly
\* when some row, column or main diagonal holds N marks of one symbol, the
\* symbol returned is the symbol of a complete line, and it returns none when
\* no line is complete
C10_CheckWinner ==
  \A ref \in Registered :
     /\ checkWinner(boardOf(heap[ref]), heap[ref].boardSize) \in Symbols \cup {Null}
     /\ \A sym \in Symbols :
          checkWinner(boardOf(heap[ref]), heap[ref].boardSize) = sym
            => Complete(boardOf(heap[ref]), heap[ref].boardSize, sym)
     /\ checkWinner(boardOf(heap[ref]), heap[ref].boardSize) = Null
          <=> ~AnyComplete(boardOf(heap[ref]), heap[ref].boardSize)
     /\ Evaluated(heap[ref]) =>
          /\ heap[ref].winner \in Symbols
               => Complete(boardOf(heap[ref]), heap[ref].boardSize, heap[ref].winner)
          /\ heap[ref].winner = Null
               <=> ~AnyComplete(boardOf(heap[ref]), heap[ref].boardSize)

\* the outcome section reported O on a 5x5 board whose only complete line is
\* the second diagonal
C10_Witness ==
  \E ref \in Registered :
     /\ heap[ref].boardSize = 5
     /\ heap[ref].status = "FINISHED"
     /\ heap[ref].winner = "O"
     /\ \A L \in GeomLines(5) :
          (\A i \in L : boardOf(heap[ref])[i] = "O") <=> L = {4, 8, 12, 16, 20}

\* C11: a cell that a Block card has put in the blocked-cell set stays in it
\* for the rest of the match (the set never shrinks), whether or not the cell
\* is occupied; no mark is ever placed in a blocked cell, and a makeMove aimed
\* at a blocked cell that passes the status, turn and card checks fails with
\* "Invalid move"
C11_BlockStays ==
  [][/\ \A ref \in Refs : SameRoom(ref) =>
          /\ Len(heap'[ref].blockedCells) >= Len(heap[ref].blockedCells)
          /\ SubSeq(heap'[ref].blockedCells, 1, Len(heap[ref].blockedCells))
               = heap[ref].blockedCells
     /\ \A ref \in Refs : PlacedIn(ref) =>
          ~includes(heap'[ref].blockedCells, LastMove(heap'[ref]).position)
     /\ \A s \in CardPlayers, r \in RoomIds, p \in CardPositions :
          \/ makeMoveCheck(r, s) # NoErr
          \/ ~includes(heap[get(r)].blockedCells, p)
          \/ emitted' = ErrInvalid
          \/ ~MakeMove(s, r, p, NoCard)
     /\ \A h \in Suspended :
          \/ ~includes(heap[h.ref].blockedCells, h.position)
          \/ emitted' = ErrInvalid
          \/ ~UseCardWrite(h)]_vars

\* cell 0 was blocked while empty, a mark went to another cell, and the next
\* mover was then refused with "Invalid move" with cell 0 still empty and blocked
C11_Witness ==
  \E ref \in Registered :
     /\ includes(heap[ref].blockedCells, 0)
     /\ At(boardOf(heap[ref]), 0) = Null
     /\ Len(heap[ref].moveHistory) = 1
     /\ heap[ref].currentTurn = "s2"
     /\ userCards["s1"]["BLOCK"].used = 1
     /\ inflight = EmptyBag
     /\ emitted = ErrInvalid

\* the cells of the board that hold the symbol
CellsOf(board, sym) == {i \in DOMAIN board : board[i] = sym}
\* the handler h consumes a Swap Cell card in this step, the participant
\* entry k of its room being the actor's and the entry j another participant's
SwapBy(h, k, j) ==
  /\ h.cardType = "SWAP_CELL"
  /\ heap[h.ref].players[k].id = h.sock
  /\ heap[h.ref].players[j].id # h.sock
  /\ UseCardWrite(h)

\* C12: Swap Cell on a target cell that holds the opponent's symbol, when the
\* actor has at least one mark: afterwards the target holds the actor's symbol,
\* the lowest-index cell the actor had marked holds the opponent's symbol,
\* every other cell is as before, and each symbol has as many marks as before
C12_SwapExchanges ==
  [][\A h \in Suspended : \A k, j \in 1..Len(heap[h.ref].players) :
       \/ At(boardOf(heap[h.ref]), h.position) # heap[h.ref].players[j].symbol
       \/ CellsOf(boardOf(heap[h.ref]), heap[h.ref].players[k].symbol) = {}
       \/ /\ boardOf(heap'[h.ref])[h.position] = heap[h.ref].players[k].symbol
          /\ boardOf(heap'[h.ref])[Min(CellsOf(boardOf(heap[h.ref]),
                                               heap[h.ref].players[k].symbol))]
               = heap[h.ref].players[j].symbol
          /\ \A i \in DOMAIN boardOf(heap[h.ref]) :
               \/ i = h.position
               \/ i = Min(CellsOf(boardOf(heap[h.ref]), heap[h.ref].players[k].symbol))
               \/ boardOf(heap'[h.ref])[i] = boardOf(heap[h.ref])[i]
          /\ \A sym \in Symbols :
               Cardinality(CellsOf(boardOf(heap'[h.ref]), sym))
                 = Cardinality(CellsOf(boardOf(heap[h.ref]), sym))
       \/ ~SwapBy(h, k, j)]_vars

\* after X0 O1 X2 O4 X5, s2 (O, marks at 1 and 4) has used its Swap Cell card
\* on cell 0: cell 0 holds O and cell 1, the lowest cell s2 had marked, holds X
C12_Witness ==
  \E ref \in Registered :
     /\ Len(heap[ref].moveHistory) = 5
     /\ heap[ref].moveHistory[1] = [position |-> 0, symbol |-> "X", playerId |-> "s1"]
     /\ heap[ref].moveHistory[2] = [position |-> 1, symbol |-> "O", playerId |-> "s2"]
     /\ heap[ref].moveHistory[4] = [position |-> 4, symbol |-> "O", playerId |-> "s2"]
     /\ boardOf(heap[ref])[0] = "O"
     /\ boardOf(heap[ref])[1] = "X"
     /\ boardOf(heap[ref])[4] = "O"
     /\ userCards["s2"]["SWAP_CELL"].used = 1
     /\ inflight = EmptyBag

\* C13: Swap Cell on a target cell that does not hold the opponent's symbol
\* changes no cell by itself; when that target is empty and not blocked the
\* call goes on as a move without a card does: the actor's symbol is written
\* to the target, the move is appended to the log, the outcome is evaluated
\* and the turn passes; otherwise the board is left as it was
C13_SwapWithoutExchange ==
  [][\A h \in Suspended : \A k, j \in 1..Len(heap[h.ref].players) :
       \/ At(boardOf(heap[h.ref]), h.position) = heap[h.ref].players[j].symbol
       \/ IF /\ At(boardOf(heap[h.ref]), h.position) = Null
             /\ ~includes(heap[h.ref].blockedCells, h.position)
            THEN /\ emitted' = NoErr
                 /\ boardOf(heap'[h.ref])
                      = [boardOf(heap[h.ref]) EXCEPT
                           ![h.position] = heap[h.ref].players[k].symbol]
                 /\ heap'[h.ref].moveHistory
                      = Append(heap[h.ref].moveHistory,
                               [position |-> h.position,
                                symbol |-> heap[h.ref].players[k].symbol,
                                playerId |-> h.sock])
                 /\ heap'[h.ref].blockedCells = heap[h.ref].blockedCells
                 /\ heap'[h.ref]
                      = makeMoveTail(heap[h.ref], boardOf(heap[h.ref]), h.sock,
                                     h.position, NoCard).room
                 /\ heap'[h.ref].status = "PLAYING"
                      => heap'[h.ref].currentTurn = heap[h.ref].players[j].id
            ELSE /\ emitted' = ErrInvalid
                 /\ heap'[h.ref] = heap[h.ref]
       \/ ~SwapBy(h, k, j)]_vars

\* after X0, s2 has used its Swap Cell card on the empty cell 5, which no move
\* without a card goes to at that point: the mark is placed and the turn passed
C13_Witness ==
  \E ref \in Registered :
     /\ heap[ref].blockedCells = << >>
     /\ Len(heap[ref].moveHistory) = 2
     /\ heap[ref].moveHistory[2] = [position |-> 5, symbol |-> "O", playerId |-> "s2"]
     /\ boardOf(heap[ref])[0] = "X"
     /\ boardOf(heap[ref])[5] = "O"
     /\ heap[ref].currentTurn = "s1"
     /\ userCards["s2"]["SWAP_CELL"].used = 1
     /\ inflight = EmptyBag
     /\ emitted = NoErr

\* C14: a placement made with the Double Move card that leaves the match going
\* leaves the turn with the participant who made it
C14_DoubleMoveKeepsTurn ==
  [][\A h \in Suspended :
       \/ h.cardType # "DOUBLE_MOVE"
       \/ ~PlacedIn(h.ref)
       \/ heap'[h.ref].status # "PLAYING"
       \/ heap'[h.ref].currentTurn = h.sock
       \/ ~UseCardWrite(h)]_vars

\* C15: a createRoom whose roomId is already in the registry leaves the
\* registry and the room registered under that roomId as they are
C15_CreateExisting ==
  [][\A h \in Suspended :
       \/ h.op # "createRoom"
       \/ get(h.roomId) \in {0, h.ref}
       \/ /\ gameRooms' = gameRooms
          /\ heap'[get(h.roomId)] = heap[get(h.roomId)]
       \/ ~LobbyStep(h)]_vars

\* C16: the room a createRoom(roomId, N) that succeeds leaves has a board of
\* N*N empty cells, status Waiting, no winner, no blocked cell, an empty move
\* log, and the issuing participant, with symbol X, as its only participant
C16_CreatedRoom ==
  [][\A h \in Suspended :
       \/ h.op # "createRoom"
       \/ /\ boardOf(heap'[h.ref]) = [i \in 0..(h.size * h.size - 1) |-> Null]
          /\ heap'[h.ref].boardSize = h.size
          /\ heap'[h.ref].status = "WAITING"
          /\ heap'[h.ref].winner = Null
          /\ heap'[h.ref].blockedCells = << >>
          /\ heap'[h.ref].moveHistory = << >>
          /\ heap'[h.ref].players = <<Player(h.sock, "X")>>
       \/ ~GetCards(h)]_vars

\* C17: every room in the registry has boardSize 3, 4 or 5
C17_SizeValidated == \A ref \in Registered : heap[ref].boardSize \in {3, 4, 5}

\* C18: a joinRoom that brings its room to two participants gives the joiner
\* the symbol O and sets the status to Playing, and right after it currentTurn
\* is the id of the participant who holds X
C18_JoinStartsMatch ==
  [][\A h \in Suspended :
       \/ h.op # "joinRoom"
       \/ Len(heap'[h.ref].players) # 2
       \/ /\ heap'[h.ref].players[2] = Player(h.sock, "O")
          /\ heap'[h.ref].status = "PLAYING"
          /\ \E k \in 1..2 :
               /\ heap'[h.ref].players[k].symbol = "X"
               /\ heap'[h.ref].players[k].id = heap'[h.ref].currentTurn
       \/ ~GetCards(h)]_vars

\* the participant ids of a room
Ids(room) == {room.players[k].id : k \in 1..Len(room.players)}
\* the room object a registry holds under roomId, 0 when none
RefIn(regs, roomId) ==
  IF \E k \in 1..Len(regs) : regs[k].roomId = roomId
    THEN regs[CHOOSE k \in 1..Len(regs) : regs[k].roomId = roomId].ref
    ELSE 0
\* the disconnect handler of s finds s in the room ref registered as roomId
LeavesFrom(s, roomId, ref) ==
  /\ firstRoomOf(s, 1) # 0
  /\ gameRooms[firstRoomOf(s, 1)] = [roomId |-> roomId, ref |-> ref]
  /\ Disconnect(s)

\* C19: when a participant of a room disconnects, the room no longer lists it;
\* a room left without participants is removed from the registry; a room left
\* with one participant has status Waiting and that participant is among the
\* sockets the notification goes to
C19_Leave ==
  [][\A s \in Sockets, r \in RoomIds, ref \in Refs :
       \/ IF Ids(heap[ref]) = {s}
            THEN RefIn(gameRooms', r) = 0
            ELSE /\ RefIn(gameRooms', r) = ref
                 /\ s \notin Ids(heap'[ref])
                 /\ Len(heap'[ref].players) = 1 =>
                      /\ heap'[ref].status = "WAITING"
                      /\ Ids(heap'[ref]) \subseteq joined'[r]
       \/ ~LeavesFrom(s, r, ref)]_vars

\* the handler holds a room object that is no longer in the registry
HoldsDestroyed(h) == heap[h.ref].status # "FREED" /\ h.ref \notin Registered

\* C20: a makeMove or joinRoom that names a roomId the registry does not hold
\* fails with "Room not found" and changes nothing; a step of a handler that
\* holds a room deleted from the registry leaves the registry and every room
\* in it as they are
C20_DestroyedStaysDestroyed ==
  [][/\ \A r \in RoomIds :
          \/ get(r) # 0
          \/ \A s \in Sockets :
               /\ \/ emitted' = ErrNotFound /\ UNCHANGED <<gameRooms, heap, inflight>>
                  \/ ~JoinRoom(s, r)
               /\ \A p \in DestroyPositions, c \in DestroyInputs \cup {NoCard} :
                    \/ emitted' = ErrNotFound /\ UNCHANGED <<gameRooms, heap, inflight>>
                    \/ ~MakeMove(s, r, p, c)
     /\ \A h \in Suspended :
          \/ ~HoldsDestroyed(h)
          \/ /\ gameRooms' = gameRooms
             /\ \A ref \in Registered : heap'[ref] = heap[ref]
          \/ ~(LobbyStep(h) \/ CardStep(h))]_vars

\* every participant has left and the room is gone from the registry; a
\* handler that was suspended has since pushed its player into the deleted
\* room while another handler still holds it, and a later request for the
\* roomId was answered "Room not found"
C20_Witness ==
  /\ gameRooms = << >>
  /\ emitted = ErrNotFound
  /\ \E h \in Suspended :
       /\ HoldsDestroyed(h)
       /\ Len(heap[h.ref].players) >= 1

\* a getGameState reply: one gameStateUpdate, sent to the caller alone
Reply(msgs) == Len(msgs) = 1 /\ msgs[1].event = "gameStateUpdate" /\ msgs[1].room = ""

\* C21: getGameState on a registered room changes nothing of the rooms, the
\* users or the cards and replies to its caller with the room's current board,
\* turn, status, winner, blocked cells, move log and participants; a query
\* that follows a query on the same room at once gets the same snapshot
C21_QueryIdempotent ==
  [][\A s \in Sockets, r \in RoomIds :
       \/ get(r) = 0
       \/ ~GetGameState(s, r)
       \/ /\ UNCHANGED <<gameRooms, heap, joined, users, userCards, lastUpdate>>
          /\ Reply(sent')
          /\ sent'[1].to = {s}
          /\ sent'[1].data.board = boardOf(heap[get(r)])
          /\ sent'[1].data.currentPlayer = heap[get(r)].currentTurn
          /\ sent'[1].data.status = heap[get(r)].status
          /\ sent'[1].data.winner = heap[get(r)].winner
          /\ sent'[1].data.blockedCells = heap[get(r)].blockedCells
          /\ sent'[1].data.moveHistory = heap[get(r)].moveHistory
          /\ sent'[1].data.players = heap[get(r)].players
          /\ (Reply(sent) /\ sent[1].data.roomId = r) => sent'[1].data = sent[1].data]_vars

\* a query has just been answered with the snapshot of a room that has two
\* participants and a move in its log
C21_Witness ==
  /\ Reply(sent)
  /\ Len(sent[1].data.players) = 2
  /\ Len(sent[1].data.moveHistory) > 0
  /\ sent[1].data.moveHistory = heap[get(sent[1].data.roomId)].moveHistory

\* the card a win that brings the streak to n is worth, "" when none
GrantFor(n) ==
  IF n = ProtectionStreak THEN "PROTECTION" ELSE IF n = GiantStreak THEN "GIANT" ELSE ""

C23_ProtectionConverts ==
  [][\A h \in BagToSet(inflight) :
       \/ h.result # "loss"
       \/ h.pc # "writeStats"
       \/ userCards[h.targetId]["PROTECTION"].quantity = 0
       \/ ~WriteStats(h)
       \/ /\ users'[h.targetId].draws = users[h.targetId].draws + 1
          /\ users'[h.targetId].losses = users[h.targetId].losses
          /\ userCards'[h.targetId]["PROTECTION"].quantity
               = userCards[h.targetId]["PROTECTION"].quantity - 1]_vars

\* C24: every state snapshot the last step sent, as a getGameState reply or as
\* a broadcast, went only to sockets that are participants of the room it
\* describes
C24_SnapshotToParticipants ==
  \A k \in 1..Len(sent) :
    sent[k].event = "gameStateUpdate" =>
      sent[k].to \subseteq {sent[k].data.players[j].id : j \in 1..Len(sent[k].data.players)}

\* C25: in every registered room of size N the board has exactly N*N cells and
\* every occupied cell, every logged move and every blocked cell has an index
\* in 0..N*N-1
C25_IndicesInRange ==
  \A ref \in Registered :
    /\ DOMAIN boardOf(heap[ref]) = 0..(heap[ref].boardSize * heap[ref].boardSize - 1)
    /\ \A k \in 1..Len(heap[ref].moveHistory) :
         heap[ref].moveHistory[k].position
           \in 0..(heap[ref].boardSize * heap[ref].boardSize - 1)
    /\ \A k \in 1..Len(heap[ref].blockedCells) :
         heap[ref].blockedCells[k] \in 0..(heap[ref].boardSize * heap[ref].boardSize - 1)

\* C26: whenever no handler is in flight, the last snapshot broadcast to each
\* registered room has the room's current board, turn, status, winner, blocked
\* cells and move log
C26_BroadcastCurrent ==
  Idle =>
    \A k \in 1..Len(gameRooms) :
      /\ lastUpdate[gameRooms[k].roomId].board = boardOf(heap[gameRooms[k].ref])
      /\ lastUpdate[gameRooms[k].roomId].currentPlayer = heap[gameRooms[k].ref].currentTurn
      /\ lastUpdate[gameRooms[k].roomId].status = heap[gameRooms[k].ref].status
      /\ lastUpdate[gameRooms[k].roomId].winner = heap[gameRooms[k].ref].winner
      /\ lastUpdate[gameRooms[k].roomId].blockedCells = heap[gameRooms[k].ref].blockedCells
      /\ lastUpdate[gameRooms[k].roomId].moveHistory = heap[gameRooms[k].ref].moveHistory

\* C27: every gameOver the last step broadcast names the room's winner symbol,
\* or none after a draw, and the counters it carries are those stored after
\* the outcome for each of the room's participants
C27_GameOverStats ==
  \A k \in 1..Len(sent) :
    (sent[k].event = "gameOver" /\ get(sent[k].room) # 0) =>
      /\ sent[k].data.winner = heap[get(sent[k].room)].winner
      /\ \A j \in 1..Len(heap[get(sent[k].room)].players) :
           sent[k].data.stats = users[heap[get(sent[k].room)].players[j].id]

\* placing sym on the empty cell c completes a line of the board
Completes(board, N, c, sym) ==
  board[c] = Null /\ Complete([board EXCEPT ![c] = sym], N, sym)

\* the AI has just answered for the given difficulty
Answered(difficulty) ==
  client.boardSize # 0 /\ client.difficulty = difficulty /\ client.timer /\ ~client'.timer

\* C28: the medium AI returns a cell that completes a line for 'O' if there is
\* one, otherwise a cell that completes a line for 'X' if there is one,
\* otherwise some empty cell
C28_MediumMove ==
  [][Answered("medium") =>
       IF \E c \in DOMAIN client.board : Completes(client.board, client.boardSize, c, "O")
         THEN Completes(client.board, client.boardSize, client'.aiMove, "O")
       ELSE IF \E c \in DOMAIN client.board :
                 Completes(client.board, client.boardSize, c, "X")
         THEN Completes(client.board, client.boardSize, client'.aiMove, "X")
       ELSE client'.aiMove \in DOMAIN client.board /\ client.board[client'.aiMove] = Null]_vars

\* the board before the AI's answer
Asked == [client.board EXCEPT ![client.aiMove] = Null]

\* the medium AI has answered on a 4x4 board where it could not win but the
\* player could, and on which it had other empty cells to choose
C28_Witness ==
  /\ client.boardSize = 4
  /\ client.difficulty = "medium"
  /\ ~client.timer
  /\ client.aiMove # -1
  /\ Completes(Asked, 4, client.aiMove, "X")
  /\ ~\E c \in DOMAIN Asked : Completes(Asked, 4, c, "O")
  /\ Cardinality(emptyCells(Asked)) > 2

\* the value of a position by full-depth search: 10 - depth for a line of 'O',
\* depth - 10 for a line of 'X', 0 for a full board, otherwise the highest
\* value of the AI's moves or the lowest of the player's
Max(S) == CHOOSE x \in S : \A y \in S : y <= x
RECURSIVE Value(_, _, _, _)
Value(board, N, depth, aiToMove) ==
  IF Complete(board, N, "O") THEN 10 - depth
  ELSE IF Complete(board, N, "X") THEN depth - 10
  ELSE IF Full(board) THEN 0
  ELSE LET after == {Value([board EXCEPT ![c] = IF aiToMove THEN "O" ELSE "X"],
                           N, depth + 1, ~aiToMove) : c \in emptyCells(board)}
       IN IF aiToMove THEN Max(after) ELSE Min(after)

\* the value of each move the AI can make on the board
MoveValues(board, N) ==
  [c \in emptyCells(board) |-> Value([board EXCEPT ![c] = "O"], N, 0, FALSE)]

\* c is the lowest of the cells whose value v[c] is the highest
LowestBest(v, c) ==
  /\ c \in DOMAIN v
  /\ \A d \in DOMAIN v : v[d] <= v[c] /\ (v[d] = v[c] => c <= d)

\* C29: on a board with an empty cell and no complete line, the hard AI
\* returns an empty cell whose move has the highest full-depth minimax value,
\* and the lowest-index one of those cells
C29_HardMove ==
  [][Answered("hard") =>
       LowestBest(MoveValues(client.board, client.boardSize), client'.aiMove)]_vars

\* the hard AI has answered on a 3x3 board with four empty cells of which a
\* lower one had a lower value and a higher one the same value as its answer
C29_Witness ==
  /\ client.boardSize = 3
  /\ client.difficulty = "hard"
  /\ ~client.timer
  /\ client.aiMove # -1
  /\ Cardinality(emptyCells(Asked)) = 4
  /\ LET v == MoveValues(Asked, 3)
     IN /\ \E c \in DOMAIN v : c < client.aiMove /\ v[c] < v[client.aiMove]
        /\ \E c \in DOMAIN v : c > client.aiMove /\ v[c] = v[client.aiMove]

\* C30: at every finished game the search reaches, on a board of size 3, 4 or
\* 5, a win of the AI scores more than a draw (0) and a win of the player
\* scores less
C30_RankingSound ==
  (client.boardSize \in AISizes /\ client.call = "returned") =>
    /\ Complete(client.board, client.boardSize, "O") => client.score > 0
    /\ Complete(client.board, client.boardSize, "X") => client.score < 0
    /\ ~AnyComplete(client.board, client.boardSize) => client.score = 0

\* C32: a registered room with two participants has one participant with X
\* and one with O
C32_DistinctSymbols ==
  \A ref \in Registered :
     Len(heap[ref].players) = 2
       => {heap[ref].players[1].symbol, heap[ref].players[2].symbol} = Symbols

\* C33: a registered room whose status is Playing has a participant whose id
\* is currentTurn
C33_TurnHeldByParticipant ==
  \A ref \in Registered :
     heap[ref].status = "PLAYING" => heap[ref].currentTurn \in Ids(heap[ref])

\* C34: a step that finds a room Finished and leaves it Finished changes
\* neither its board nor its winner, move log or currentTurn
C34_FinishedIsFrozen ==
  [][\A ref \in Refs :
       (heap[ref].status = "FINISHED" /\ heap'[ref].status = "FINISHED")
         => /\ heap'[ref].boardState = heap[ref].boardState
            /\ heap'[ref].winner = heap[ref].winner
            /\ heap'[ref].moveHistory = heap[ref].moveHistory
            /\ heap'[ref].currentTurn = heap[ref].currentTurn]_vars

\* C35: the board of a registered room whose status is Playing has no
\* complete row, column or main diagonal of one symbol
C35_PlayingHasNoLine ==
  \A ref \in Registered :
     heap[ref].status = "PLAYING"
       => ~AnyComplete(boardOf(heap[ref]), heap[ref].boardSize)

\* C36: the board of a registered room whose status is Playing has a cell
\* that is empty and not blocked
C36_LegalMoveExists ==
  \A ref \in Registered :
     heap[ref].status = "PLAYING"
       => \E i \in DOMAIN boardOf(heap[ref]) :
            /\ boardOf(heap[ref])[i] = Null
            /\ ~includes(heap[ref].blockedCells, i)

\* the number of marked cells of a board
marks(board) == Cardinality({i \in DOMAIN board : board[i] # Null})

\* C37: in every room the number of marked cells equals the length of the
\* move log, and a step that keeps the room only appends to its move log
C37_MarksMatchLog ==
  [][\A ref \in Refs :
       /\ heap[ref].status # "FREED"
            => marks(boardOf(heap[ref])) = Len(heap[ref].moveHistory)
       /\ SameRoom(ref)
            => /\ Len(heap'[ref].moveHistory) >= Len(heap[ref].moveHistory)
               /\ SubSeq(heap'[ref].moveHistory, 1, Len(heap[ref].moveHistory))
                    = heap[ref].moveHistory]_vars

\* C38: when no handler is in flight, every registered room has a participant
\* whose socket is connected
C38_NoOrphanRooms ==
  Idle => \A ref \in Registered : \E id \in Ids(heap[ref]) : id \in open

\* C39: on the 3x3 board against the hard AI the game never ends with the
\* player ('X') as the winner, nor with a complete line of 'X' on the board
C39_HardNeverLoses ==
  (client.boardSize = 3 /\ client.difficulty = "hard")
    => /\ ~(client.status = "FINISHED" /\ client.winner = "X")
       /\ ~Complete(client.board, 3, "X")

\* games against the hard AI have ended: one with a line of 'O', after the
\* player had marked three cells
C39_Witness ==
  /\ client.boardSize = 3
  /\ client.difficulty = "hard"
  /\ client.status = "FINISHED"
  /\ client.winner = "O"
  /\ Complete(client.board, 3, "O")
  /\ Cardinality({i \in DOMAIN client.board : client.board[i] = "X"}) >= 3

\* the game state is no longer the one the pending timer captured
Superseded ==
  \/ client.roomId # client.newGameState.roomId
  \/ client.boardSize # client.newGameState.boardSize
  \/ client.board # client.newGameState.board

\* C40: the callback of a timer whose game state has been superseded by a new
\* game or a change of board size leaves the board, its size, the roomId, the
\* turn, the status and the winner as they are
C40_TimerKeepsNewGame ==
  [][(client.timer /\ ~client'.timer /\ Superseded)
       => /\ client'.board = client.board
          /\ client'.boardSize = client.boardSize
          /\ client'.roomId = client.roomId
          /\ client'.currentPlayer = client.currentPlayer
          /\ client'.status = client.status
          /\ client'.winner = client.winner]_vars

\* C31: a move made in multiplayer mode while a card selection is pending and
\* less than CardWindow milliseconds old is emitted with that card
C31_MoveCarriesSelection ==
  [][\A position \in {0, 4} :
       \/ client.gameMode # "multiplayer"
       \/ client.picked = Null
       \/ client.sincePick >= CardWindow
       \/ client'.lastEmit = [position |-> position, cardType |-> client.picked]
       \/ ~PageMakeMove(position)]_vars

====
